---- MODULE Spec2Model ----
(***************************************************************************)
(* Fraud detection dashboard backend: the dataset provider (DataLoader),   *)
(* the risk scoring pipeline (_preprocess_data), the relationship graph    *)
(* builder with ring detection, and mule detection (NetworkAnalysisService).*)
(*                                                                         *)
(* Numbers.  Signal scores are in hundredths (100 is 1.0); the weights of  *)
(* the score are in hundredths too, so a fraud probability computed by    *)
(* _preprocess_data is in ten-thousandths (10000 is 1.0).  A float that    *)
(* may be missing is a record [nan, val]; NaN propagates through           *)
(* arithmetic and compares false, as in numpy.  Float rounding is not      *)
(* modelled.                                                               *)
(***************************************************************************)
EXTENDS Integers, Sequences, FiniteSets, TLC

VARIABLES
  \* ---- risk scoring pipeline (one record of the frame handed to _preprocess_data)
  scoreDf,        \* the record: its four signals, then the derived columns
  scorePhase,     \* "raw" before _preprocess_data, "preprocessed" after
  \* ---- the scored table the services read (data_loader.get_data())
  df,             \* sequence of transactions: sender, receiver, amount, probability
  hash_seed,      \* what fixes, for the life of the process, the order sets iterate in
  \* ---- NetworkAnalysisService.get_fraud_network_graph and _detect_fraud_rings
  gpc,            \* position of the request: "idle", "loop", "bfs", "done"
  min_transactions, min_fraud_prob,   \* the request's parameters
  suspicious,     \* df filtered to fraud_probability >= min_fraud_prob
  pairs,          \* the surviving (sender, receiver) aggregates, in groupby order
  nodes_dict,     \* account -> NetworkNode
  edges,          \* sequence of NetworkEdge
  graph,          \* adjacency: sender -> set of receivers
  start_nodes,    \* the keys of graph the for loop has still to visit, in order
  visited, queue, component,   \* the traversal state
  rings, ring_id, \* the rings confirmed so far, the next ring number
  result,         \* the dictionary the request returns
  components,     \* the components _find_connected_component returned, in order
  previous,       \* the parameters and result of the request before this one
  requests,       \* requests finished before this one
  expansions,     \* account -> times the traversal of this call has expanded it
  \* ---- NetworkAnalysisService.detect_mule_accounts
  mpc,            \* "idle" before the request, "done" after
  min_senders, redistribution_threshold,   \* the request's parameters
  mule_candidates,   \* the joined per-account table with its ratio column
  mules,          \* the records the request returns
  \* ---- DataLoader, shared by the threads serving requests
  _data,          \* reference to the cached frame, 0 for None
  _loaded_at,     \* 0 for None, else the number of the load that stamped it
  heap,           \* the frames built so far; a reference is an index
  csv,            \* what is at settings.DATA_FILE_PATH
  tpc,            \* thread -> the statement it is at ("idle" between calls)
  call,           \* thread -> the call it is in
  local_df,       \* thread -> the frame its _preprocess_data works on
  last,           \* thread -> the call it last returned from, with what it received
  calls,          \* calls started so far
  called,         \* the kinds of call started so far: "get", "load", "reload"
  overlapped,     \* whether a call has ever started while another one was running
  health,         \* the last response of GET /health
  \* ---- DataLoader's filtered views
  view,           \* the last answer of a filtered view
  \* ---- AnalyticsService.explain_transaction behind its endpoint
  transaction_id, \* the id the request asks about
  response,       \* what the endpoint answers
  \* ---- FraudDetectionService.generate_smart_alerts and _detect_simple_rings
  apc,            \* position of the request: "idle", "loop", "done"
  alert_graph,    \* adjacency over the high-risk rows: sender -> set of receivers
  alert_nodes,    \* the keys of alert_graph the for loop has still to visit
  alert_visited,  \* the accounts already counted into a ring
  alert_rings,    \* the counter `rings`
  critical_alerts \* the titles of the critical alerts raised

scoreVars == <<scoreDf, scorePhase>>

graphVars == <<gpc, min_transactions, min_fraud_prob, suspicious, pairs, nodes_dict,
               edges, graph, start_nodes, visited, queue, component, rings, ring_id,
               result, components, previous, requests, expansions>>

muleVars == <<mpc, min_senders, redistribution_threshold, mule_candidates, mules>>

loaderVars == <<_data, _loaded_at, heap, csv, tpc, call, local_df, last, calls,
                called, overlapped, health>>

viewVars == <<view>>

explainVars == <<transaction_id, response>>

alertVars == <<apc, alert_graph, alert_nodes, alert_visited, alert_rings, critical_alerts>>

serviceVars == <<viewVars, explainVars, alertVars>>

vars == <<scoreVars, df, hash_seed, graphVars, muleVars, loaderVars, serviceVars>>

-----------------------------------------------------------------------------
(* Floats with NaN *)

NaN == [nan |-> TRUE, val |-> 0]

Num(n) == [nan |-> FALSE, val |-> n]

IsNaN(x) == x.nan

\* x * w for a python float weight w
FMul(x, w) == IF x.nan THEN NaN ELSE Num(x.val * w)

FAdd(x, y) == IF x.nan \/ y.nan THEN NaN ELSE Num(x.val + y.val)

\* (series < c).astype(float): a comparison with NaN is False
FLessIndicator(x, c) == IF x.nan THEN 0 ELSE IF x.val < c THEN 1 ELSE 0

\* Series.clip(lo, hi): NaN stays NaN
FClip(x, lo, hi) ==
  IF x.nan THEN NaN
  ELSE IF x.val < lo THEN Num(lo)
  ELSE IF x.val > hi THEN Num(hi)
  ELSE x

-----------------------------------------------------------------------------
(* Risk scoring pipeline: DataLoader._preprocess_data *)

W_VELOCITY == 34
W_GEO_ANOMALY == 28
W_SPENDING_DEVIATION == 19
W_TIME_SINCE_LAST == 11
RECENT_SECONDS == 60

\* 1.0 as a probability (signal unit times weight unit)
ProbOne == 100 * 100

-----------------------------------------------------------------------------
(* Timestamps.  A timestamp is a day of the week (Monday is 0) and a minute   *)
(* of the day, or NaT: load_data parses the column with errors='coerce'.      *)

NaT == [nat |-> TRUE, dayofweek |-> 0, minute |-> 0]

At(day, minute) == [nat |-> FALSE, dayofweek |-> day, minute |-> minute]

MINUTES_PER_HOUR == 60

\* Series.dt.hour: NaN for NaT
Hour(ts) == IF ts.nat THEN NaN ELSE Num(ts.minute \div MINUTES_PER_HOUR)

\* Series.dt.dayofweek
DayOfWeek(ts) == IF ts.nat THEN NaN ELSE Num(ts.dayofweek)

\* Series.isin([5, 6])
IsWeekend(day) == ~day.nan /\ day.val \in {5, 6}

NIGHT_FIRST_HOUR == 0

NIGHT_LAST_HOUR == 6

\* line 115: df['hour'].between(0, 6), both ends included, False for NaN
IsNight(hour) == ~hour.nan /\ hour.val >= NIGHT_FIRST_HOUR /\ hour.val <= NIGHT_LAST_HOUR

-----------------------------------------------------------------------------
(* The records handed to _preprocess_data *)

\* the values a score signal takes in the source table, in hundredths
SignalValues == {-50, 0, 50, 100, 150}

Signals == {NaN} \cup {Num(v) : v \in SignalValues}

\* seconds since the account's last transaction
TimeSinceValues == {30, 60, 3600}

TimeSince == {NaN} \cup {Num(v) : v \in TimeSinceValues}

\* np.random.uniform(0, 0.08): the values drawn, in ten-thousandths
RandomTerms == {0, 400, 800}

\* minutes of the day around the end of the night
ScoreMinutes == {0, 359, 360, 390, 419, 420, 1439}

\* Friday, Saturday, Sunday
ScoreDays == {4, 5, 6}

ScoreTimestamps == {NaT} \cup {At(d, mi) : d \in ScoreDays, mi \in ScoreMinutes}

RawRecords ==
  [velocity_score : Signals, geo_anomaly_score : Signals,
   spending_deviation_score : Signals, time_since_last_transaction : TimeSince,
   timestamp : ScoreTimestamps]

\* the weighted sum of lines 118-123, before clipping
WeightedScore(r, u) ==
  FAdd(FAdd(FAdd(FAdd(FMul(r.velocity_score, W_VELOCITY),
                      FMul(r.geo_anomaly_score, W_GEO_ANOMALY)),
                 FMul(r.spending_deviation_score, W_SPENDING_DEVIATION)),
            Num(FLessIndicator(r.time_since_last_transaction, RECENT_SECONDS)
                * W_TIME_SINCE_LAST * 100)),
       Num(u))

\* .clip(0, 1)
Clip01(x) == FClip(x, 0, ProbOne)

FraudProbability(r, u) == Clip01(WeightedScore(r, u))

\* pd.cut(p, bins=[0, 0.3, 0.6, 0.75, 1.0], labels=[low, medium, high, critical]):
\* right-closed intervals (0,0.3], (0.3,0.6], (0.6,0.75], (0.75,1.0]; a value in no
\* interval, and NaN, get no category (NaN)
RiskCategory(p) ==
  IF p.nan THEN "NaN"
  ELSE IF p.val <= 0 THEN "NaN"
  ELSE IF p.val <= 3000 THEN "low"
  ELSE IF p.val <= 6000 THEN "medium"
  ELSE IF p.val <= 7500 THEN "high"
  ELSE IF p.val <= ProbOne THEN "critical"
  ELSE "NaN"

ScoreInit ==
  /\ scoreDf \in RawRecords
  /\ scorePhase = "raw"

\* _preprocess_data on the record, with u the random term drawn for it (the column
\* `date` of line 113 is left out: a timestamp here has no calendar date)
PreprocessData ==
  /\ scorePhase = "raw"
  /\ \E u \in RandomTerms :
       LET p == FraudProbability(scoreDf, u) IN
       scoreDf' = [velocity_score |-> scoreDf.velocity_score,
                   geo_anomaly_score |-> scoreDf.geo_anomaly_score,
                   spending_deviation_score |-> scoreDf.spending_deviation_score,
                   time_since_last_transaction |-> scoreDf.time_since_last_transaction,
                   timestamp |-> scoreDf.timestamp,
                   hour |-> Hour(scoreDf.timestamp),
                   day_of_week |-> DayOfWeek(scoreDf.timestamp),
                   is_weekend |-> IsWeekend(DayOfWeek(scoreDf.timestamp)),
                   is_night |-> IsNight(Hour(scoreDf.timestamp)),
                   random_term |-> u,
                   fraud_probability |-> p,
                   risk_category |-> RiskCategory(p)]
  /\ scorePhase' = "preprocessed"
  /\ UNCHANGED <<df, hash_seed, graphVars, muleVars, loaderVars, serviceVars>>

-----------------------------------------------------------------------------
(* The scored table *)

NumAccounts == 3

\* account ids; their order is the order pandas sorts the account strings in
Accounts == 1..NumAccounts

MaxRows == 3

\* fraud probabilities of the rows of the table, in ten-thousandths
TableProbs == {3000, 6000}

TableAmounts == {5}

Rows ==
  [sender_account : Accounts, receiver_account : Accounts,
   amount : TableAmounts, fraud_probability : TableProbs]

\* a total order on rows, of which only the order of (sender, receiver) matters
RowLeq(a, b) ==
  \/ a.sender_account < b.sender_account
  \/ /\ a.sender_account = b.sender_account
     /\ \/ a.receiver_account < b.receiver_account
        \/ /\ a.receiver_account = b.receiver_account
           /\ \/ a.fraud_probability < b.fraud_probability
              \/ /\ a.fraud_probability = b.fraud_probability
                 /\ a.amount <= b.amount

\* the tables of at most n rows out of R, one per multiset of rows (the services
\* group and filter the table: the order of its rows changes no result)
RECURSIVE TablesUpTo(_, _)
TablesUpTo(R, n) ==
  IF n = 0 THEN {<< >>}
  ELSE LET prev == TablesUpTo(R, n - 1)
           full == {t \in prev : Len(t) = n - 1}
       IN  prev \cup {Append(x[1], x[2]) :
                        x \in {y \in full \X R :
                                 Len(y[1]) = 0 \/ RowLeq(y[1][Len(y[1])], y[2])}}

NoTable == df = << >> /\ hash_seed = 0

GraphTableInit == df \in TablesUpTo(Rows, MaxRows) /\ hash_seed = 0

\* rows of the table when the graph is requested more than once
MaxRepeatRows == 3

RepeatTableInit == df \in TablesUpTo(Rows, MaxRepeatRows) /\ hash_seed = 0

RECURSIVE SumAmount(_)
SumAmount(s) == IF s = << >> THEN 0 ELSE Head(s).amount + SumAmount(Tail(s))

RECURSIVE SumProb(_)
SumProb(s) == IF s = << >> THEN 0 ELSE Head(s).fraud_probability + SumProb(Tail(s))

\* Series.mean(), kept exact as sum over count (count 0 is NaN)
Mean(s) == [sum |-> SumProb(s), n |-> Len(s)]

-----------------------------------------------------------------------------
(* Relationship graph builder: NetworkAnalysisService.get_fraud_network_graph *)

EDGE_LIMIT == 200
RING_LIMIT == 10
RING_ACCOUNT_LIMIT == 10
RING_MIN_ACCOUNTS == 3

\* the request's parameters: min_transactions (ge=1), min_fraud_prob
MinTransactionsValues == {1, 2}

MinFraudProbValues == {6000}

IsSuspiciousLax(r, mfp) == TRUE

\* df['fraud_probability'] >= min_fraud_prob
IsSuspicious(r, mfp) == r.fraud_probability >= mfp

Suspicious(table, mfp) == SelectSeq(table, LAMBDA r : IsSuspicious(r, mfp))

RowsOfPair(table, s, r) ==
  SelectSeq(table, LAMBDA x : x.sender_account = s /\ x.receiver_account = r)

PairLess(a, b) == a[1] < b[1] \/ (a[1] = b[1] /\ a[2] < b[2])

\* the keys of a groupby, sorted
RECURSIVE SortedPairs(_)
SortedPairs(S) ==
  IF S = {} THEN << >>
  ELSE LET least == CHOOSE a \in S : \A b \in S \ {a} : PairLess(a, b)
       IN  <<least>> \o SortedPairs(S \ {least})

\* suspicious.groupby([sender, receiver]).agg(count, sum, mean).reset_index()
GroupPairs(table) ==
  LET keys == SortedPairs({<<table[i].sender_account, table[i].receiver_account>> :
                             i \in DOMAIN table})
  IN  [k \in DOMAIN keys |->
         LET rs == RowsOfPair(table, keys[k][1], keys[k][2])
         IN  [sender |-> keys[k][1], receiver |-> keys[k][2],
              transaction_count |-> Len(rs),
              total_amount |-> SumAmount(rs),
              avg_fraud_prob |-> Mean(rs)]]

KeepsPairLoose(p, mt) == p.transaction_count >= mt - 1

\* pairs['transaction_count'] >= min_transactions
KeepsPair(p, mt) == p.transaction_count >= mt

SurvivingPairs(table, mt) == SelectSeq(GroupPairs(table), LAMBDA p : KeepsPair(p, mt))

Range(s) == {s[i] : i \in DOMAIN s}

Min2(a, b) == IF a <= b THEN a ELSE b

Prefix(s, n) == SubSeq(s, 1, Min2(n, Len(s)))

\* _build_nodes(suspicious, pairs)
BuildNodes(table, ps) ==
  LET all_accounts == {p.sender : p \in Range(ps)} \cup {p.receiver : p \in Range(ps)}
  IN  [account \in all_accounts |->
         LET sent == SelectSeq(table, LAMBDA x : x.sender_account = account)
             received == SelectSeq(table, LAMBDA x : x.receiver_account = account)
         IN  [id |-> account,
              account_id |-> account,
              transaction_count |-> Len(sent) + Len(received),
              total_volume |-> SumAmount(sent) + SumAmount(received),
              fraud_probability |-> Mean(sent \o received),
              node_type |-> IF Len(sent) > 0 /\ Len(received) > 0 THEN "both"
                            ELSE IF Len(sent) > 0 THEN "sender"
                            ELSE "receiver"]]

\* the NetworkEdge of every surviving pair
BuildEdges(ps) ==
  [k \in DOMAIN ps |->
     [source |-> ps[k].sender, target |-> ps[k].receiver,
      transaction_count |-> ps[k].transaction_count,
      total_amount |-> ps[k].total_amount,
      avg_fraud_probability |-> ps[k].avg_fraud_prob]]

RECURSIVE SumTotalAmount(_)
SumTotalAmount(ps) ==
  IF ps = << >> THEN 0 ELSE Head(ps).total_amount + SumTotalAmount(Tail(ps))

-----------------------------------------------------------------------------
(* Ring detection: NetworkAnalysisService._detect_fraud_rings *)

\* graph[row['sender']].add(row['receiver']) for every surviving pair
BuildGraph(ps) ==
  [s \in {p.sender : p \in Range(ps)} |->
     {p.receiver : p \in {q \in Range(ps) : q.sender = s}}]

\* graph.keys(): the senders in the order the pairs insert them
RECURSIVE KeysInOrder(_, _)
KeysInOrder(ps, seen) ==
  IF ps = << >> THEN << >>
  ELSE IF Head(ps).sender \in seen THEN KeysInOrder(Tail(ps), seen)
  ELSE <<Head(ps).sender>> \o KeysInOrder(Tail(ps), seen \cup {Head(ps).sender})

\* graph.get(node, [])
Neighbors(g, node) == IF node \in DOMAIN g THEN g[node] ELSE {}

\* the orders a set can be iterated in
Orders(S) ==
  {o \in [1..Cardinality(S) -> S] : \A i, j \in 1..Cardinality(S) : i # j => o[i] # o[j]}

IsRingSizeMut(c) == Cardinality(c) > RING_MIN_ACCOUNTS

IsRingSizeLoose(c) == Cardinality(c) >= RING_MIN_ACCOUNTS - 1

\* len(component) >= 3
IsRingSize(c) == Cardinality(c) >= RING_MIN_ACCOUNTS

\* _is_cyclic(component, graph)
\* a cyclicity test that asks for a member whose neighbour points back to it
IsCyclicMutual(c, g) ==
  \E node \in c : \E n \in Neighbors(g, node) :
    n \in c /\ n # node /\ node \in Neighbors(g, n)

IsCyclic(c, g) ==
  \E node \in c : \E n \in Neighbors(g, node) : n \in c /\ n # node

DigitChar(d) == <<"0", "1", "2", "3", "4", "5", "6", "7", "8", "9">>[d + 1]

RECURSIVE Decimal(_)
Decimal(k) == IF k < 10 THEN DigitChar(k) ELSE Decimal(k \div 10) \o DigitChar(k % 10)

\* f"RING_{ring_id:03d}"
RingIdString(k) ==
  "RING_" \o (IF k < 10 THEN "00" ELSE IF k < 100 THEN "0" ELSE "") \o Decimal(k)

\* the place of account a among the members of c
RankIn(c, a) == Cardinality({b \in c : b < a})

\* the orders a process can iterate a set in, one per seed: the members in
\* ascending order, started from any one of them
HashSeeds == 0..RING_ACCOUNT_LIMIT

DisplayedAccountsAll(c, seed) == c

\* list(component)[:10]: the members, cut to 10 in the set's iteration order
DisplayedAccounts(c, seed) ==
  {a \in c : (RankIn(c, a) + seed) % Cardinality(c) < RING_ACCOUNT_LIMIT}

RingTxnsEitherEnd(table, c) ==
  SelectSeq(table, LAMBDA x : x.sender_account \in c \/ x.receiver_account \in c)

\* the transactions of the suspicious table inside the component
RingTxns(table, c) ==
  SelectSeq(table, LAMBDA x : x.sender_account \in c /\ x.receiver_account \in c)

\* ---- tables made of many separate components, for the limits of ring detection

\* 3-account cycles in a table
MaxCycles == 11

\* `copies` transactions from s to r
EdgeRows(s, r, p, amt, copies) ==
  [i \in 1..copies |->
     [sender_account |-> s, receiver_account |-> r, amount |-> amt,
      fraud_probability |-> p]]

\* a directed cycle over the accounts a, a+1, ..., a+len-1, two transactions an edge
RECURSIVE CycleRows(_, _, _)
CycleRows(a, len, i) ==
  IF i = len THEN << >>
  ELSE EdgeRows(a + i, a + ((i + 1) % len), 6000, 5, 2) \o CycleRows(a, len, i + 1)

\* the components of a plan, a sequence of cycle lengths, laid out from account a on
RECURSIVE LayOut(_, _)
LayOut(plan, a) ==
  IF plan = << >> THEN << >>
  ELSE CycleRows(a, Head(plan), 0) \o LayOut(Tail(plan), a + Head(plan))

\* n cycles of 3 accounts, each followed by a mutual pair
RECURSIVE CyclePlan(_)
CyclePlan(n) ==
  IF n = 0 THEN << >> ELSE <<3, 2>> \o CyclePlan(n - 1)

RingInputs == [cycles : 0..MaxCycles, long : {"none", "first", "last"}]

\* the plan of an input: the 3-cycles with their pairs, and before or after them one
\* cycle over more accounts than a ring displays
PlanOf(in) ==
  LET long == <<RING_ACCOUNT_LIMIT + 1>> IN
  (IF in.long = "first" THEN long ELSE << >>)
    \o CyclePlan(in.cycles)
    \o (IF in.long = "last" THEN long ELSE << >>)

\* other transactions around the first component, which starts at account 1: one
\* single transaction 2 -> 1, one transaction 1 -> 2 below the threshold, and one
\* single transaction into account 1 from the first account of the second component
ExtraRows(plan) ==
  IF plan = << >> THEN << >>
  ELSE EdgeRows(2, 1, 6000, 7, 1) \o EdgeRows(1, 2, 3000, 9, 1)
         \o (IF Len(plan) >= 2 THEN EdgeRows(1 + plan[1], 1, 6000, 11, 1) ELSE << >>)

RingTable(in) == LayOut(PlanOf(in), 1) \o ExtraRows(PlanOf(in))

\* the seed matters to a table only when a component is longer than a ring displays
RingTableInit ==
  \E in \in RingInputs, seed \in HashSeeds :
    /\ in.long = "none" => seed = 0
    /\ df = RingTable(in)
    /\ hash_seed = seed

GraphIdle ==
  /\ gpc = "idle"
  /\ min_transactions = 0
  /\ min_fraud_prob = 0
  /\ suspicious = << >>
  /\ pairs = << >>
  /\ nodes_dict = << >>
  /\ edges = << >>
  /\ graph = << >>
  /\ start_nodes = << >>
  /\ visited = {}
  /\ queue = << >>
  /\ component = {}
  /\ rings = << >>
  /\ ring_id = 1
  /\ result = << >>
  /\ components = << >>
  /\ previous = << >>
  /\ requests = 0
  /\ expansions = << >>

NewRingStateKept ==
  /\ rings' = << >>
  /\ visited' = visited
  /\ ring_id' = 1

NewRingStateContinued ==
  /\ rings' = << >>
  /\ visited' = {}
  /\ ring_id' = ring_id

\* lines 135-137: rings = [], visited = set(), ring_id = 1, made anew by every call
NewRingState ==
  /\ rings' = << >>
  /\ visited' = {}
  /\ ring_id' = 1

\* lines 33-60 and 129-137: filter, group, nodes, edges, then the adjacency list
GetFraudNetworkGraph ==
  /\ gpc = "idle"
  /\ \E mt \in MinTransactionsValues, mfp \in MinFraudProbValues :
       LET susp == Suspicious(df, mfp)
           ps == SurvivingPairs(susp, mt)
       IN  /\ min_transactions' = mt
           /\ min_fraud_prob' = mfp
           /\ suspicious' = susp
           /\ pairs' = ps
           /\ nodes_dict' = BuildNodes(susp, ps)
           /\ edges' = BuildEdges(ps)
           /\ graph' = BuildGraph(ps)
           /\ start_nodes' = KeysInOrder(ps, {})
  /\ NewRingState
  /\ components' = << >>
  /\ expansions' = << >>
  /\ gpc' = "loop"
  /\ UNCHANGED <<scoreVars, df, hash_seed, queue, component, result, previous, requests, muleVars, loaderVars, serviceVars>>

\* lines 139-146: the next start node; a visited one is skipped, an unvisited one
\* starts a traversal
NextStartNode ==
  /\ gpc = "loop"
  /\ start_nodes # << >>
  /\ start_nodes' = Tail(start_nodes)
  /\ IF Head(start_nodes) \in visited
       THEN UNCHANGED <<gpc, queue, component>>
       ELSE /\ component' = {}
            /\ queue' = <<Head(start_nodes)>>
            /\ gpc' = "bfs"
  /\ UNCHANGED <<scoreVars, df, hash_seed, min_transactions, min_fraud_prob, suspicious, pairs,
                 nodes_dict, edges, graph, visited, rings, ring_id, result, components, expansions, previous, requests, muleVars, loaderVars, serviceVars>>

\* one more expansion of node counted (lines 180-186 run for node once more)
Expanded(count, node) ==
  [a \in DOMAIN count \cup {node} |->
     IF a = node THEN (IF a \in DOMAIN count THEN count[a] + 1 ELSE 1) ELSE count[a]]

\* the while loop without the test of lines 177-178
BfsStepWithoutSkip ==
  /\ gpc = "bfs"
  /\ queue # << >>
  /\ LET node == Head(queue) IN
       /\ visited' = visited \cup {node}
       /\ component' = component \cup {node}
       /\ expansions' = Expanded(expansions, node)
       /\ \E order \in Orders({n \in Neighbors(graph, node) : n \notin visited'}) :
            queue' = Tail(queue) \o order
  /\ UNCHANGED <<scoreVars, df, hash_seed, gpc, min_transactions, min_fraud_prob, suspicious, pairs,
                 nodes_dict, edges, graph, start_nodes, rings, ring_id, result, components, previous,
                 requests, muleVars, loaderVars, serviceVars>>

\* lines 175-186: one turn of the while loop of _find_connected_component
BfsStep ==
  /\ gpc = "bfs"
  /\ queue # << >>
  /\ LET node == Head(queue) IN
     IF node \in visited
       THEN /\ queue' = Tail(queue)
            /\ UNCHANGED <<visited, component, expansions>>
       ELSE /\ visited' = visited \cup {node}
            /\ component' = component \cup {node}
            /\ expansions' = Expanded(expansions, node)
            /\ \E order \in Orders({n \in Neighbors(graph, node) : n \notin visited'}) :
                 queue' = Tail(queue) \o order
  /\ UNCHANGED <<scoreVars, df, hash_seed, gpc, min_transactions, min_fraud_prob, suspicious, pairs,
                 nodes_dict, edges, graph, start_nodes, rings, ring_id, result, components, previous, requests, muleVars, loaderVars, serviceVars>>

\* lines 188 and 148-165: the component is returned and, when it has at least three
\* accounts and passes _is_cyclic, recorded as a ring
ComponentFound ==
  /\ gpc = "bfs"
  /\ queue = << >>
  /\ IF IsRingSize(component) /\ IsCyclic(component, graph)
       THEN /\ LET shown == DisplayedAccounts(component, hash_seed) IN
                 rings' = Append(rings,
                   [ring_id |-> RingIdString(ring_id),
                    account_count |-> Cardinality(component),
                    transaction_count |-> Len(RingTxns(suspicious, component)),
                    total_volume |-> SumAmount(RingTxns(suspicious, component)),
                    avg_fraud_probability |-> Mean(RingTxns(suspicious, component)),
                    accounts |-> shown])
            /\ ring_id' = ring_id + 1
       ELSE UNCHANGED <<rings, ring_id>>
  /\ components' = Append(components, component)
  /\ gpc' = "loop"
  /\ UNCHANGED <<scoreVars, df, hash_seed, min_transactions, min_fraud_prob, suspicious, pairs,
                 nodes_dict, edges, graph, start_nodes, visited, queue, component,
                 result, expansions, previous, requests, muleVars, loaderVars, serviceVars>>

\* lines 167 and 66-76: the first ten rings, the summary, the returned dictionary
ReturnGraph ==
  /\ gpc = "loop"
  /\ start_nodes = << >>
  /\ LET fraud_rings == Prefix(rings, RING_LIMIT) IN
     result' = [nodes |-> Range(nodes_dict),
                edges |-> Prefix(edges, EDGE_LIMIT),
                fraud_rings |-> fraud_rings,
                rings_detected |-> Len(fraud_rings),
                total_accounts |-> Cardinality(DOMAIN nodes_dict),
                total_volume |-> SumTotalAmount(pairs)]
  /\ gpc' = "done"
  /\ UNCHANGED <<scoreVars, df, hash_seed, min_transactions, min_fraud_prob, suspicious, pairs,
                 nodes_dict, edges, graph, start_nodes, visited, queue, component,
                 rings, ring_id, components, expansions, previous, requests, muleVars, loaderVars, serviceVars>>

\* requests served one after the other by a process
MaxRequests == 2

\* the response has been sent and the next request for the graph arrives: the
\* cached table stays as it is, the locals of the finished call are dead
RepeatRequest ==
  /\ gpc = "done"
  /\ requests + 1 < MaxRequests
  /\ previous' = [min_transactions |-> min_transactions,
                  min_fraud_prob |-> min_fraud_prob,
                  result |-> result]
  /\ requests' = requests + 1
  /\ gpc' = "idle"
  /\ UNCHANGED <<scoreVars, df, hash_seed, min_transactions, min_fraud_prob, suspicious, pairs,
                 nodes_dict, edges, graph, start_nodes, visited, queue, component,
                 rings, ring_id, result, components, expansions, muleVars, loaderVars, serviceVars>>

-----------------------------------------------------------------------------
(* Mule detection: NetworkAnalysisService.detect_mule_accounts *)

MULE_LIMIT == 20

MaxMuleRows == 4

\* amounts of the rows of the table mule detection reads (non-negative)
MuleAmounts == {0, 1}

MuleRows ==
  [sender_account : Accounts, receiver_account : Accounts,
   amount : MuleAmounts, fraud_probability : TableProbs]

MuleTableInit == df \in TablesUpTo(MuleRows, MaxMuleRows) /\ hash_seed = 0

\* the request's parameters: min_senders (ge=3), redistribution_threshold in
\* hundredths (ge=0.5, le=1.0)
MinSendersValues == {3, 4}

ThresholdValues == {50, 80}

RECURSIVE SortedAccounts(_)
SortedAccounts(S) ==
  IF S = {} THEN << >>
  ELSE LET least == CHOOSE a \in S : \A b \in S : a <= b
       IN  <<least>> \o SortedAccounts(S \ {least})

\* df.groupby('receiver_account').agg(nunique senders, sum amount, mean probability)
ReceivedTable(table) ==
  LET keys == SortedAccounts({table[i].receiver_account : i \in DOMAIN table})
  IN  [k \in DOMAIN keys |->
         LET rs == SelectSeq(table, LAMBDA x : x.receiver_account = keys[k])
         IN  [account |-> keys[k],
              unique_senders |-> Cardinality({rs[i].sender_account : i \in DOMAIN rs}),
              amount_received |-> SumAmount(rs),
              avg_fraud_prob |-> Mean(rs)]]

\* df.groupby('sender_account').agg(nunique receivers, sum amount)
SentTable(table) ==
  LET keys == SortedAccounts({table[i].sender_account : i \in DOMAIN table})
  IN  [k \in DOMAIN keys |->
         LET rs == SelectSeq(table, LAMBDA x : x.sender_account = keys[k])
         IN  [account |-> keys[k],
              unique_receivers |-> Cardinality({rs[i].receiver_account : i \in DOMAIN rs}),
              amount_sent |-> SumAmount(rs)]]

\* amount_sent / amount_received on non-negative floats: a fraction, +inf for a
\* positive amount over 0, NaN for 0 / 0
Divide(a, b) ==
  IF b # 0 THEN [kind |-> "num", num |-> a, den |-> b]
  ELSE IF a # 0 THEN [kind |-> "inf", num |-> 1, den |-> 0]
  ELSE [kind |-> "nan", num |-> 0, den |-> 0]

\* .fillna(0): NaN becomes 0, +inf stays
FillNa0(x) == IF x.kind = "nan" THEN [kind |-> "num", num |-> 0, den |-> 1] ELSE x

\* received.merge(sent, on='account', how='inner'), then the ratio column
MuleCandidates(table) ==
  LET received == ReceivedTable(table)
      sent == SentTable(table)
      joined == SelectSeq(received,
                  LAMBDA r : \E j \in DOMAIN sent : sent[j].account = r.account)
  IN  [k \in DOMAIN joined |->
         LET r == joined[k]
             s == sent[CHOOSE j \in DOMAIN sent : sent[j].account = r.account]
         IN  [account |-> r.account,
              unique_senders |-> r.unique_senders,
              amount_received |-> r.amount_received,
              avg_fraud_prob |-> r.avg_fraud_prob,
              unique_receivers |-> s.unique_receivers,
              amount_sent |-> s.amount_sent,
              redistribution_ratio |-> FillNa0(Divide(s.amount_sent, r.amount_received))]]

\* redistribution_ratio >= redistribution_threshold (threshold in hundredths)
RatioAtLeast(x, thr) ==
  IF x.kind = "inf" THEN TRUE ELSE x.num * 100 >= thr * x.den

\* (unique_senders >= min_senders) & (redistribution_ratio >= redistribution_threshold)
IsMule(c, ms, thr) == c.unique_senders >= ms /\ RatioAtLeast(c.redistribution_ratio, thr)

MuleIdle ==
  /\ mpc = "idle"
  /\ min_senders = 0
  /\ redistribution_threshold = 0
  /\ mule_candidates = << >>
  /\ mules = << >>

\* the whole of detect_mule_accounts
DetectMuleAccounts ==
  /\ mpc = "idle"
  /\ \E ms \in MinSendersValues, thr \in ThresholdValues :
       LET cands == MuleCandidates(df) IN
       /\ min_senders' = ms
       /\ redistribution_threshold' = thr
       /\ mule_candidates' = cands
       /\ mules' = Prefix(SelectSeq(cands, LAMBDA c : IsMule(c, ms, thr)), MULE_LIMIT)
  /\ mpc' = "done"
  /\ UNCHANGED <<scoreVars, df, hash_seed, graphVars, loaderVars, serviceVars>>

-----------------------------------------------------------------------------
(* Dataset provider: DataLoader.load_data and DataLoader.get_data, called from   *)
(* concurrent requests.  A frame is an object on the heap; _data holds a         *)
(* reference to one (0 is None).  Each step below is one statement of the       *)
(* source, so the requests interleave between statements.                       *)

NumThreads == 2

Threads == 1..NumThreads

\* the calls made over a run, all threads together
MaxCalls == 3

\* what is at settings.DATA_FILE_PATH: no file; a well-formed file; a file read_csv
\* rejects; a file without a timestamp column; a file without the score columns; a
\* file without the column is_fraud
CsvKinds == {"missing", "good", "unreadable", "no_timestamp", "no_scores", "no_labels"}

\* the files load_data reads and preprocesses without an exception: no statement of
\* lines 78-92 touches is_fraud, and read_csv passes over a dtype of an absent column
LoadableKinds == {"good", "no_labels"}

\* the column groups derived after read_csv
DerivedColumns == {"timestamp", "time_flags", "fraud_probability", "risk_category"}

\* a frame as read_csv returns it
RawFrame(t) == [source |-> "csv", columns |-> {}, built_by |-> t]

\* a frame as _generate_synthetic_data returns it: timestamps are datetimes and
\* _preprocess_data has run on it (line 190)
SyntheticFrame(t) == [source |-> "synthetic", columns |-> DerivedColumns, built_by |-> t]

IsComplete(frame) == frame.columns = DerivedColumns

NoCall == [op |-> "none", found_empty |-> FALSE, ret |-> 0, observed |-> {},
           during_reload |-> FALSE]

\* no request for /health has been answered
NoHealth == [status |-> "none", data_loaded |-> FALSE, data_info |-> {}, synthetic |-> FALSE]

LoaderIdle ==
  /\ _data = 0
  /\ _loaded_at = 0
  /\ heap = << >>
  /\ csv = "missing"
  /\ tpc = [t \in Threads |-> "idle"]
  /\ call = [t \in Threads |-> NoCall]
  /\ local_df = [t \in Threads |-> 0]
  /\ last = [t \in Threads |-> NoCall]
  /\ calls = 0
  /\ called = {}
  /\ overlapped = FALSE
  /\ health = NoHealth

LoaderInit ==
  /\ _data = 0
  /\ _loaded_at = 0
  /\ heap = << >>
  /\ csv \in CsvKinds
  /\ tpc = [t \in Threads |-> "idle"]
  /\ call = [t \in Threads |-> NoCall]
  /\ local_df = [t \in Threads |-> 0]
  /\ last = [t \in Threads |-> NoCall]
  /\ calls = 0
  /\ called = {}
  /\ overlapped = FALSE
  /\ health = NoHealth

OthersUnchanged == UNCHANGED <<scoreVars, df, hash_seed, graphVars, muleVars, serviceVars>>

Goto(t, label) == tpc' = [tpc EXCEPT ![t] = label]

\* a forced reload is running in another thread
ReloadRunning(t) == \E u \in Threads \ {t} : tpc[u] # "idle" /\ call[u].op = "reload"

\* `return self._data`: the call of t ends with the frame _data refers to now
Return(t) ==
  /\ last' = [last EXCEPT ![t] = [call[t] EXCEPT !.ret = _data,
                                                  !.observed = heap[_data].columns,
                                                  !.during_reload = ReloadRunning(t)]]
  /\ Goto(t, "idle")

\* a request calls get_data(), load_data() or load_data(force_reload=True)
Call(t) ==
  /\ tpc[t] = "idle"
  /\ calls < MaxCalls
  /\ calls' = calls + 1
  /\ \E op \in {"get", "load", "reload"} :
       /\ call' = [call EXCEPT ![t] = [NoCall EXCEPT !.op = op]]
       /\ Goto(t, IF op = "get" THEN "g197" ELSE "l38")
       /\ called' = called \cup {op}
  /\ overlapped' = (overlapped \/ \E u \in Threads \ {t} : tpc[u] # "idle")
  /\ UNCHANGED <<_data, _loaded_at, heap, csv, local_df, last, health>>
  /\ OthersUnchanged

\* get_data line 197: if self._data is None, go on into load_data()
GetCheck(t) ==
  /\ tpc[t] = "g197"
  /\ call' = [call EXCEPT ![t].found_empty = (_data = 0)]
  /\ Goto(t, IF _data = 0 THEN "l38" ELSE "g199")
  /\ UNCHANGED <<_data, _loaded_at, heap, csv, local_df, last, calls, called, overlapped, health>>
  /\ OthersUnchanged

\* get_data line 199: return self._data
GetReturn(t) ==
  /\ tpc[t] = "g199"
  /\ Return(t)
  /\ UNCHANGED <<_data, _loaded_at, heap, csv, call, local_df, calls, called, overlapped, health>>
  /\ OthersUnchanged

\* load_data line 38: if self._data is not None and not force_reload
LoadCheck(t) ==
  /\ tpc[t] = "l38"
  /\ Goto(t, IF _data # 0 /\ call[t].op # "reload" THEN "l40"
             ELSE IF csv = "missing" THEN "l52" ELSE "l78")
  /\ UNCHANGED <<_data, _loaded_at, heap, csv, call, local_df, last, calls,
                 called, overlapped, health>>
  /\ OthersUnchanged

\* load_data line 40: return self._data (the cached frame)
LoadReturnCached(t) ==
  /\ tpc[t] = "l40"
  /\ Return(t)
  /\ UNCHANGED <<_data, _loaded_at, heap, csv, call, local_df, calls, called, overlapped, health>>
  /\ OthersUnchanged

\* load_data lines 52 and 96: self._data = self._generate_synthetic_data()
LoadSynthetic(t) ==
  /\ tpc[t] \in {"l52", "l96"}
  /\ heap' = Append(heap, SyntheticFrame(t))
  /\ _data' = Len(heap) + 1
  /\ Goto(t, "stamp")
  /\ UNCHANGED <<_loaded_at, csv, call, local_df, last, calls, called, overlapped, health>>
  /\ OthersUnchanged

\* load_data lines 78-81: self._data = pd.read_csv(...), or read_csv raises
LoadReadCsv(t) ==
  /\ tpc[t] = "l78"
  /\ IF csv = "unreadable"
       THEN Goto(t, "l96") /\ UNCHANGED <<heap, _data>>
       ELSE /\ heap' = Append(heap, RawFrame(t))
            /\ _data' = Len(heap) + 1
            /\ Goto(t, "l84")
  /\ UNCHANGED <<_loaded_at, csv, call, local_df, last, calls, called, overlapped, health>>
  /\ OthersUnchanged

\* load_data line 84: self._data['timestamp'] = pd.to_datetime(self._data['timestamp'])
\* on the frame _data refers to now, or KeyError
LoadParseTimestamp(t) ==
  /\ tpc[t] = "l84"
  /\ IF csv = "no_timestamp"
       THEN Goto(t, "l96") /\ UNCHANGED heap
       ELSE /\ heap' = [heap EXCEPT ![_data].columns = @ \cup {"timestamp"}]
            /\ Goto(t, "l87")
  /\ UNCHANGED <<_data, _loaded_at, csv, call, local_df, last, calls, called, overlapped, health>>
  /\ OthersUnchanged

\* load_data line 87, the call: _preprocess_data(self._data) binds df to the frame
\* _data refers to now
PreprocessEnter(t) ==
  /\ tpc[t] = "l87"
  /\ local_df' = [local_df EXCEPT ![t] = _data]
  /\ Goto(t, "l111")
  /\ UNCHANGED <<_data, _loaded_at, heap, csv, call, last, calls, called, overlapped, health>>
  /\ OthersUnchanged

\* _preprocess_data lines 111-115: hour, day_of_week, date, is_weekend, is_night,
\* added to df in place
PreprocessTimeFlags(t) ==
  /\ tpc[t] = "l111"
  /\ heap' = [heap EXCEPT ![local_df[t]].columns = @ \cup {"time_flags"}]
  /\ Goto(t, "l118")
  /\ UNCHANGED <<_data, _loaded_at, csv, call, local_df, last, calls, called, overlapped, health>>
  /\ OthersUnchanged

\* _preprocess_data lines 118-124: fraud_probability added in place, or KeyError
PreprocessScore(t) ==
  /\ tpc[t] = "l118"
  /\ IF csv = "no_scores"
       THEN Goto(t, "l96") /\ UNCHANGED heap
       ELSE /\ heap' = [heap EXCEPT ![local_df[t]].columns = @ \cup {"fraud_probability"}]
            /\ Goto(t, "l127")
  /\ UNCHANGED <<_data, _loaded_at, csv, call, local_df, last, calls, called, overlapped, health>>
  /\ OthersUnchanged

\* _preprocess_data lines 127-131: risk_category added in place
PreprocessRiskCategory(t) ==
  /\ tpc[t] = "l127"
  /\ heap' = [heap EXCEPT ![local_df[t]].columns = @ \cup {"risk_category"}]
  /\ Goto(t, "l133")
  /\ UNCHANGED <<_data, _loaded_at, csv, call, local_df, last, calls, called, overlapped, health>>
  /\ OthersUnchanged

\* _preprocess_data line 133 and load_data line 87, the assignment: self._data = df
PreprocessReturn(t) ==
  /\ tpc[t] = "l133"
  /\ _data' = local_df[t]
  /\ Goto(t, "stamp")
  /\ UNCHANGED <<_loaded_at, heap, csv, call, local_df, last, calls, called, overlapped, health>>
  /\ OthersUnchanged

\* load_data lines 53, 89, 97: self._loaded_at = datetime.now()
LoadStamp(t) ==
  /\ tpc[t] = "stamp"
  /\ _loaded_at' = _loaded_at + 1
  /\ Goto(t, "ret")
  /\ UNCHANGED <<_data, heap, csv, call, local_df, last, calls, called, overlapped, health>>
  /\ OthersUnchanged

\* load_data lines 55, 92, 98: return self._data
LoadReturn(t) ==
  /\ tpc[t] = "ret"
  /\ Return(t)
  /\ UNCHANGED <<_data, _loaded_at, heap, csv, call, local_df, calls, called, overlapped, health>>
  /\ OthersUnchanged

\* the keys of the dictionary data_info returns for a cached frame (lines 224-247):
\* date_range is there when min() and max() of the timestamp column have
\* isoformat(), that is once the column holds datetimes
DataInfoKeys(frame) ==
  {"loaded", "rows", "loaded_at", "fraud_count", "fraud_rate"}
    \cup (IF "timestamp" \in frame.columns THEN {"date_range"} ELSE {})

\* whether the frame has the column is_fraud: the synthetic frame has it (line 181),
\* a frame read from the file has it when the file has
HasIsFraud(frame) == frame.source = "synthetic" \/ csv # "no_labels"

\* the answer of global_exception_handler (main.py lines 159-170) to an exception
\* that leaves health_check: status 500, no HealthCheckResponse
HealthError == [status |-> "error", data_loaded |-> FALSE, data_info |-> {},
                synthetic |-> FALSE]

\* main.health_check with DataLoader.data_info: "healthy" whenever a frame is cached
\* and data_info returns; data_info raises KeyError at line 236 and again at line 245
\* when the cached frame has no column is_fraud.
\* `synthetic` is not part of the response: it records what the cached frame was
HealthCheck ==
  /\ health' = IF _data = 0
                 THEN [status |-> "degraded", data_loaded |-> FALSE, data_info |-> {},
                       synthetic |-> FALSE]
                 ELSE IF ~HasIsFraud(heap[_data])
                 THEN HealthError
                 ELSE [status |-> "healthy", data_loaded |-> TRUE,
                       data_info |-> DataInfoKeys(heap[_data]),
                       synthetic |-> heap[_data].source = "synthetic"]
  /\ UNCHANGED <<_data, _loaded_at, heap, csv, tpc, call, local_df, last, calls,
                 called, overlapped>>
  /\ OthersUnchanged

-----------------------------------------------------------------------------
(* The filtered views of DataLoader: get_recent_transactions,                 *)
(* get_high_risk_transactions, get_fraud_transactions.  Timestamps are in     *)
(* hours.                                                                     *)

\* no view has answered
NoView == [op |-> "none", status |-> "none", rows |-> << >>]

ViewIdle == view = NoView

\* the `hours` a recent view is asked for
HoursValues == {24}

\* the `limit` a high-risk view is asked for (threshold stays at its default)
LimitValues == {1, 100}

HIGH_RISK_THRESHOLD == 7500

\* Series.max() of the timestamp column of a frame with rows
MaxTimestamp(table) ==
  CHOOSE t \in {table[i].timestamp : i \in DOMAIN table} :
    \A i \in DOMAIN table : table[i].timestamp <= t

\* lines 203-205: of an empty frame max() is NaT and no row compares >= NaT
RecentRows(table, hours) ==
  IF table = << >> THEN << >>
  ELSE SelectSeq(table, LAMBDA r : r.timestamp >= MaxTimestamp(table) - hours)

\* DataFrame.nlargest(limit, 'fraud_probability'): the rows in descending order of
\* probability, equal ones in the order of the frame, the first `limit` of them
RECURSIVE NLargest(_, _)
NLargest(table, limit) ==
  IF table = << >> \/ limit = 0 THEN << >>
  ELSE LET top == CHOOSE i \in DOMAIN table :
                    /\ \A j \in DOMAIN table :
                         table[j].fraud_probability <= table[i].fraud_probability
                    /\ \A j \in 1..(i - 1) :
                         table[j].fraud_probability < table[i].fraud_probability
           rest == [k \in 1..(Len(table) - 1) |->
                      IF k < top THEN table[k] ELSE table[k + 1]]
       IN  <<table[top]>> \o NLargest(rest, limit - 1)

\* lines 209-211
HighRiskRows(table, threshold, limit) ==
  NLargest(SelectSeq(table, LAMBDA r : r.fraud_probability >= threshold), limit)

\* whether the frame has the column is_fraud
HasLabels(table) == \A i \in DOMAIN table : "is_fraud" \in DOMAIN table[i]

\* line 216
FraudRows(table) == SelectSeq(table, LAMBDA r : r.is_fraud = TRUE)

ViewFrame == UNCHANGED <<scoreVars, df, hash_seed, graphVars, muleVars, loaderVars,
                         explainVars, alertVars>>

\* get_recent_transactions
GetRecentTransactions ==
  /\ \E hours \in HoursValues :
       view' = [op |-> "recent", status |-> "ok", rows |-> RecentRows(df, hours)]
  /\ ViewFrame

\* get_high_risk_transactions
GetHighRiskTransactions ==
  /\ \E limit \in LimitValues :
       view' = [op |-> "high_risk", status |-> "ok",
                rows |-> HighRiskRows(df, HIGH_RISK_THRESHOLD, limit)]
  /\ ViewFrame

\* the filter of get_fraud_transactions written back to the cache
GetFraudTransactionsInPlace ==
  /\ HasLabels(df)
  /\ df' = FraudRows(df)
  /\ view' = [op |-> "fraud", status |-> "ok", rows |-> FraudRows(df)]
  /\ UNCHANGED <<scoreVars, hash_seed, graphVars, muleVars, loaderVars,
                 explainVars, alertVars>>

\* get_fraud_transactions: KeyError when the frame has no column is_fraud
GetFraudTransactions ==
  /\ view' = IF HasLabels(df)
               THEN [op |-> "fraud", status |-> "ok", rows |-> FraudRows(df)]
               ELSE [op |-> "fraud", status |-> "error", rows |-> << >>]
  /\ ViewFrame

-----------------------------------------------------------------------------
(* Tables of many accounts: account i sends one transaction to each of the   *)
(* next three accounts, round the circle, so that every account has three    *)
(* distinct senders.                                                          *)

MaxHubs == 22

FAN_OUT == 3

\* how many accounts: none, the fewest that makes three distinct senders, and
\* numbers from the limit of the answer on
LatticeSizes == {0, FAN_OUT + 1} \cup MULE_LIMIT..MaxHubs

\* weak: accounts 1..weak send amount 0; hot: accounts 1..hot send at a high
\* fraud probability; labelled: the frame has the column is_fraud
LatticeInputs ==
  {in \in [size : LatticeSizes, weak : {0, 1, FAN_OUT}, hot : 0..1, labelled : BOOLEAN] :
     in.size = 0 => (in.weak = 0 /\ in.hot = 0)}

\* the probabilities of the three transactions of a hot account
HotProbs == <<8000, 9000, 8500>>

LatticeAmount(in, i) == IF i <= in.weak THEN 0 ELSE 1

LatticeProb(in, i, d) == IF i <= in.hot THEN HotProbs[d] ELSE 3000

LatticeRow(in, i, d) ==
  IF in.labelled
    THEN [sender_account |-> i,
          receiver_account |-> ((i + d - 1) % in.size) + 1,
          amount |-> LatticeAmount(in, i),
          fraud_probability |-> LatticeProb(in, i, d),
          timestamp |-> 12 * i,
          is_fraud |-> (i <= in.hot)]
    ELSE [sender_account |-> i,
          receiver_account |-> ((i + d - 1) % in.size) + 1,
          amount |-> LatticeAmount(in, i),
          fraud_probability |-> LatticeProb(in, i, d),
          timestamp |-> 12 * i]

LatticeTable(in) ==
  [k \in 1..(FAN_OUT * in.size) |->
     LatticeRow(in, ((k - 1) \div FAN_OUT) + 1, ((k - 1) % FAN_OUT) + 1)]

LatticeTableInit ==
  /\ \E in \in LatticeInputs : df = LatticeTable(in)
  /\ hash_seed = 0

-----------------------------------------------------------------------------
(* AnalyticsService.explain_transaction behind GET                            *)
(* /transaction-explanation/{transaction_id}                                  *)

NumTransactionIds == 2

\* the ids in the dataset; a request may ask for one more
TransactionIds == 1..NumTransactionIds

RequestIds == 1..(NumTransactionIds + 1)

MaxExplainRows == 2

ExplainTimestamps == {NaT, At(0, 180), At(0, 840)}

ExplainProbs == {5000, 8000, 9500}

\* a row of the preprocessed frame, with the columns explain_transaction reads
ExplainRows ==
  [transaction_id : TransactionIds, timestamp : ExplainTimestamps,
   velocity_score : {NaN, Num(50)}, geo_anomaly_score : {Num(20)},
   spending_deviation_score : {Num(10)}, fraud_probability : ExplainProbs]

\* the frames: the order of the rows matters (iloc[0])
ExplainTables == UNION {[1..n -> ExplainRows] : n \in 0..MaxExplainRows}

ExplainTableInit == df \in ExplainTables /\ hash_seed = 0

NoResponse == [status |-> 0]

ExplainIdle == transaction_id = 0 /\ response = NoResponse

\* the column `hour` holds floats when a timestamp of the frame is NaT, and
\* integers otherwise
HourIsFloat(table) == \E i \in DOMAIN table : table[i].timestamp.nat

IMPORTANCE_NIGHT == 11

IMPORTANCE_DAY == 5

IMPORTANCE_DEVICE == 8

BLOCK_ABOVE == 9000

HOLD_ABOVE == 7500

\* lines 441-446
RecommendedAction(p) ==
  IF p > BLOCK_ABOVE THEN "BLOCK and request verification"
  ELSE IF p > HOLD_ABOVE THEN "HOLD for manual review"
  ELSE "MONITOR for additional signals"

\* the service, lines 373-454.  The first row with the id is explained; the
\* format code 02d of line 418 raises ValueError on a float.  The descriptions
\* and the sentence of the explanation are left out, and the importances are
\* kept by feature (their order in the answer is not modelled)
ExplainService(table, id) ==
  LET txn == SelectSeq(table, LAMBDA r : r.transaction_id = id) IN
  IF Len(txn) = 0
    THEN [kind |-> "error", error |-> "Transaction not found", transaction_id |-> id]
  ELSE IF HourIsFloat(table)
    THEN [kind |-> "raised", exception |-> "ValueError"]
  ELSE [kind |-> "explanation",
        transaction_id |-> id,
        row_id |-> txn[1].transaction_id,
        fraud_probability |-> txn[1].fraud_probability,
        feature_importances |->
          [velocity |-> FMul(txn[1].velocity_score, W_VELOCITY),
           geo |-> FMul(txn[1].geo_anomaly_score, W_GEO_ANOMALY),
           spending |-> FMul(txn[1].spending_deviation_score, W_SPENDING_DEVIATION),
           time |-> IF IsNight(Hour(txn[1].timestamp))
                      THEN IMPORTANCE_NIGHT ELSE IMPORTANCE_DAY,
           device |-> IMPORTANCE_DEVICE],
        recommended_action |-> RecommendedAction(txn[1].fraud_probability)]

HTTP_OK == 200

HTTP_NOT_FOUND == 404

HTTP_INTERNAL_ERROR == 500

\* the endpoint, lines 149-160: 404 for the dictionary with 'error', 500 for
\* any other exception
ExplainEndpoint(data) ==
  IF data.kind = "error"
    THEN [status |-> HTTP_NOT_FOUND, detail |-> data.error]
  ELSE IF data.kind = "raised"
    THEN [status |-> HTTP_INTERNAL_ERROR, detail |-> data.exception]
  ELSE [status |-> HTTP_OK, body |-> data]

\* one request for an explanation
ExplainTransaction ==
  /\ response = NoResponse
  /\ \E id \in RequestIds :
       /\ transaction_id' = id
       /\ response' = ExplainEndpoint(ExplainService(df, id))
  /\ UNCHANGED <<scoreVars, df, hash_seed, graphVars, muleVars, loaderVars,
                 viewVars, alertVars>>

-----------------------------------------------------------------------------
(* The alert feed: FraudDetectionService.generate_smart_alerts, of which the  *)
(* window and the ring alert are modelled, and _detect_simple_rings.  The     *)
(* other alerts of the feed read neither the ring counter nor its graph.      *)

MaxAlertRows == 3

\* the threshold of line 463 lies between these
AlertProbs == {7000, 8000}

SIMPLE_RING_THRESHOLD == 7000

\* hours; a request asks for the last 24
AlertTimestamps == {0, 48}

AlertRows ==
  [sender_account : Accounts, receiver_account : Accounts,
   fraud_probability : AlertProbs, timestamp : AlertTimestamps]

\* the frames: the order of the rows is the order the adjacency list is filled in
AlertTables == UNION {[1..n -> AlertRows] : n \in 0..MaxAlertRows}

AlertTableInit == df \in AlertTables /\ hash_seed = 0

AlertIdle ==
  /\ apc = "idle"
  /\ alert_graph = << >>
  /\ alert_nodes = << >>
  /\ alert_visited = {}
  /\ alert_rings = 0
  /\ critical_alerts = << >>

\* line 463
HighRisk(table) == SelectSeq(table, LAMBDA r : r.fraud_probability > SIMPLE_RING_THRESHOLD)

\* lines 466-468: the adjacency list over the rows
Adjacency(table) ==
  [a \in {table[i].sender_account : i \in DOMAIN table} |->
     {table[i].receiver_account : i \in {j \in DOMAIN table : table[j].sender_account = a}}]

\* the keys of the adjacency list in the order of their insertion
RECURSIVE InsertionOrder(_, _)
InsertionOrder(table, seen) ==
  IF table = << >> THEN << >>
  ELSE IF Head(table).sender_account \in seen THEN InsertionOrder(Tail(table), seen)
  ELSE <<Head(table).sender_account>>
         \o InsertionOrder(Tail(table), seen \cup {Head(table).sender_account})

AlertFrame == UNCHANGED <<scoreVars, df, hash_seed, graphVars, muleVars, loaderVars,
                          viewVars, explainVars>>

\* generate_smart_alerts lines 399-401 and 421, then _detect_simple_rings lines
\* 462-472
GenerateSmartAlerts ==
  /\ apc = "idle"
  /\ \E hours \in HoursValues :
       LET high_risk == HighRisk(RecentRows(df, hours)) IN
       /\ alert_graph' = Adjacency(high_risk)
       /\ alert_nodes' = InsertionOrder(high_risk, {})
  /\ alert_visited' = {}
  /\ alert_rings' = 0
  /\ apc' = "loop"
  /\ UNCHANGED critical_alerts
  /\ AlertFrame

\* the neighbours of node that point back to it
PointingBack(g, node) == {n \in Neighbors(g, node) : node \in Neighbors(g, n)}

\* lines 474-484: one turn of the for loop over the nodes; the first neighbour
\* that points back is any of them, the set's order being what it is
SimpleRingsNode ==
  /\ apc = "loop"
  /\ alert_nodes # << >>
  /\ alert_nodes' = Tail(alert_nodes)
  /\ LET node == Head(alert_nodes) IN
     IF node \in alert_visited \/ PointingBack(alert_graph, node) = {}
       THEN UNCHANGED <<alert_rings, alert_visited>>
       ELSE \E neighbor \in PointingBack(alert_graph, node) :
              /\ alert_rings' = alert_rings + 1
              /\ alert_visited' = alert_visited \cup {node, neighbor}
  /\ UNCHANGED <<apc, alert_graph, critical_alerts>>
  /\ AlertFrame

\* line 486 and generate_smart_alerts lines 422-429
RaiseRingAlert ==
  /\ apc = "loop"
  /\ alert_nodes = << >>
  /\ critical_alerts' = IF alert_rings > 0
                          THEN <<[title |-> "Fraud Ring(s) Detected", count |-> alert_rings]>>
                          ELSE << >>
  /\ apc' = "done"
  /\ UNCHANGED <<alert_graph, alert_nodes, alert_visited, alert_rings>>
  /\ AlertFrame

-----------------------------------------------------------------------------
(* Claims about the risk scoring pipeline *)

Preprocessed == scorePhase = "preprocessed"

\* the buckets of the data model: low < 0.3 <= medium < 0.6 <= high < 0.75 <= critical
SpecBucket(v) ==
  IF v < 3000 THEN "low"
  ELSE IF v < 6000 THEN "medium"
  ELSE IF v < 7500 THEN "high"
  ELSE "critical"

\* C8: every record whose fraud probability is a number p in [0,1] gets the risk
\* category low when p < 0.3, medium when 0.3 <= p < 0.6, high when 0.6 <= p < 0.75
\* and critical when p >= 0.75 (so 0 is low, 0.3 medium, 0.6 high, 0.75 critical).
C8_RiskCategoryBuckets ==
  (Preprocessed /\ ~IsNaN(scoreDf.fraud_probability))
    => scoreDf.risk_category = SpecBucket(scoreDf.fraud_probability.val)

\* the fill policy of the scoring contract: a missing signal counts as 0
FillZero(x) == IF IsNaN(x) THEN Num(0) ELSE x

Filled(r) ==
  [velocity_score |-> FillZero(r.velocity_score),
   geo_anomaly_score |-> FillZero(r.geo_anomaly_score),
   spending_deviation_score |-> FillZero(r.spending_deviation_score),
   time_since_last_transaction |-> FillZero(r.time_since_last_transaction)]

SomeSignalMissing(r) ==
  \/ IsNaN(r.velocity_score)
  \/ IsNaN(r.geo_anomaly_score)
  \/ IsNaN(r.spending_deviation_score)
  \/ IsNaN(r.time_since_last_transaction)

\* C9: a record with a missing (NaN) velocity, geo-anomaly, spending-deviation or
\* time-since-last signal is scored as if that signal were 0: its fraud probability
\* is a number in [0,1], never NaN.
C9_MissingSignalScoredAsZero ==
  (Preprocessed /\ SomeSignalMissing(scoreDf))
    => /\ ~IsNaN(scoreDf.fraud_probability)
       /\ scoreDf.fraud_probability
            = Clip01(WeightedScore(Filled(scoreDf), scoreDf.random_term))

\* C10: after preprocessing, every record's fraud probability is a number in [0,1],
\* whatever the signals and the random term are, and it is the weighted sum
\* 0.34 velocity + 0.28 geo + 0.19 spending + 0.11 [time_since_last < 60] + random
\* clipped to [0,1].
C10_ProbabilityInUnitInterval ==
  Preprocessed
    => /\ ~IsNaN(scoreDf.fraud_probability)
       /\ scoreDf.fraud_probability.val >= 0
       /\ scoreDf.fraud_probability.val <= ProbOne
       /\ ~IsNaN(WeightedScore(scoreDf, scoreDf.random_term))
            => scoreDf.fraud_probability.val
                 = LET s == WeightedScore(scoreDf, scoreDf.random_term).val
                   IN  IF s < 0 THEN 0 ELSE IF s > ProbOne THEN ProbOne ELSE s

\* what the clipping does settle: a record whose three scores are numbers has a
\* probability in [0,1]
NumericRecordsClipped ==
  (Preprocessed /\ ~IsNaN(WeightedScore(scoreDf, scoreDf.random_term)))
    => /\ ~IsNaN(scoreDf.fraud_probability)
       /\ scoreDf.fraud_probability.val >= 0
       /\ scoreDf.fraud_probability.val <= ProbOne

\* the night of the data model, 00:00 to 06:00: the hours 0 to 5
IsNightUpToSix(hour) ==
  ~hour.nan /\ hour.val >= NIGHT_FIRST_HOUR /\ hour.val < NIGHT_LAST_HOUR

Timestamped == Preprocessed /\ ~scoreDf.timestamp.nat

\* C26: the night flag of a record is true exactly when the hour of its timestamp
\* is 0 to 5 (00:00 up to 06:00); a transaction at 06:30 is not flagged.
C26_NightFlagIsMidnightToSix ==
  Timestamped => (scoreDf.is_night <=> IsNightUpToSix(Hour(scoreDf.timestamp)))

\* a record stamped 06:30 flagged as night
FlaggedAtHalfPastSix ==
  /\ Timestamped
  /\ scoreDf.timestamp.minute = 6 * MINUTES_PER_HOUR + 30
  /\ scoreDf.is_night

\* what the flag is: true exactly up to 06:59, false from 07:00 on and for a
\* record without a timestamp
NightFlagThroughHourSix ==
  Preprocessed =>
    (scoreDf.is_night <=>
       (~scoreDf.timestamp.nat /\ scoreDf.timestamp.minute < 7 * MINUTES_PER_HOUR))

-----------------------------------------------------------------------------
(* Claims about the graph build and ring detection *)

GraphDone == gpc = "done"

\* the surviving edges, as ordered pairs
EdgeSet == {<<p.sender, p.receiver>> : p \in Range(pairs)}

\* the accounts a directed path inside c leads to from the accounts of `from`
RECURSIVE ReachableIn(_, _, _)
ReachableIn(c, from, k) ==
  IF k = 0 THEN from
  ELSE ReachableIn(c, from \cup {e[2] : e \in {x \in EdgeSet : x[1] \in from /\ x[2] \in c}},
                   k - 1)

\* some edge between two different members of c closes a directed cycle inside c
HasBackEdge(c) ==
  \E e \in EdgeSet :
    /\ e[1] \in c /\ e[2] \in c /\ e[1] # e[2]
    /\ e[1] \in ReachableIn(c, {e[2]}, Cardinality(c))

\* C1: ring detection never returns a component without a directed back-edge: the
\* members of every returned ring are joined by a directed cycle, so a pure chain,
\* tree or star (A->B and B->C only) yields no ring.
C1_NoRingWithoutBackEdge ==
  GraphDone => \A k \in DOMAIN result.fraud_rings : HasBackEdge(result.fraud_rings[k].accounts)

\* a traversal has just finished: `component` is what _find_connected_component returns
ComponentComplete == gpc = "bfs" /\ queue = << >>

\* C2: every component the traversal produces is closed under the surviving edges
\* taken in either direction: the two ends of an edge are in the same component
\* (edges A->B and C->B put A, B and C together).
C2_ComponentsWeaklyConnected ==
  ComponentComplete
    => \A e \in EdgeSet : (e[1] \in component) <=> (e[2] \in component)

\* the suspicious transactions are exactly those of a directed 3-cycle a->b->c->a,
\* each pair with at least min_transactions of them
ThreeCycle(a, b, c) ==
  /\ a # b /\ b # c /\ a # c
  /\ {<<suspicious[i].sender_account, suspicious[i].receiver_account>> :
        i \in DOMAIN suspicious} = {<<a, b>>, <<b, c>>, <<c, a>>}
  /\ \A e \in {<<a, b>>, <<b, c>>, <<c, a>>} :
       Len(RowsOfPair(suspicious, e[1], e[2])) >= min_transactions

\* C3: when the suspicious transactions form a directed 3-cycle A->B, B->C, C->A with
\* at least min_transactions transactions per pair, the graph build returns exactly
\* 3 edges, 3 nodes and one fraud ring, of account_count 3 and members {A, B, C}.
C3_ThreeCycleIsOneRing ==
  GraphDone =>
    \A a, b, c \in Accounts :
      ThreeCycle(a, b, c) =>
        /\ Len(result.edges) = 3
        /\ {<<result.edges[k].source, result.edges[k].target>> : k \in DOMAIN result.edges}
             = {<<a, b>>, <<b, c>>, <<c, a>>}
        /\ Cardinality(result.nodes) = 3
        /\ {n.account_id : n \in result.nodes} = {a, b, c}
        /\ result.total_accounts = 3
        /\ Len(result.fraud_rings) = 1
        /\ result.rings_detected = 1
        /\ result.fraud_rings[1].account_count = 3
        /\ result.fraud_rings[1].accounts = {a, b, c}

\* a finished request over a 3-cycle
C3_Witness ==
  /\ GraphDone
  /\ \E a, b, c \in Accounts : ThreeCycle(a, b, c)
  /\ Len(result.fraud_rings) = 1

\* the transactions of the table from s to r that are at or above min_fraud_prob
QualifyingRows(s, r) ==
  SelectSeq(df, LAMBDA x : /\ x.sender_account = s /\ x.receiver_account = r
                           /\ x.fraud_probability >= min_fraud_prob)

\* the ordered pairs with at least min_transactions qualifying transactions
QualifyingPairs ==
  {e \in Accounts \X Accounts : /\ Len(QualifyingRows(e[1], e[2])) >= 1
                                /\ Len(QualifyingRows(e[1], e[2])) >= min_transactions}

ReturnedEdge(a, b) ==
  \E k \in DOMAIN result.edges : result.edges[k].source = a /\ result.edges[k].target = b

\* C11: every returned edge aggregates one ordered (sender, receiver) pair: it counts
\* exactly the pair's transactions at or above min_fraud_prob, that count is at least
\* min_transactions, no pair has two edges, a pair with fewer qualifying transactions
\* has no edge, and A->B and B->A are edges of their own.
C11_EdgesAreQualifyingPairs ==
  GraphDone =>
    /\ \A k \in DOMAIN result.edges :
         LET e == result.edges[k]
             q == QualifyingRows(e.source, e.target)
         IN  /\ e.transaction_count = Len(q)
             /\ e.total_amount = SumAmount(q)
             /\ e.transaction_count >= min_transactions
             /\ <<e.source, e.target>> \in QualifyingPairs
    /\ \A j, k \in DOMAIN result.edges :
         j # k => <<result.edges[j].source, result.edges[j].target>>
                    # <<result.edges[k].source, result.edges[k].target>>
    /\ \A a, b \in Accounts :
         Len(QualifyingRows(a, b)) < min_transactions => ~ReturnedEdge(a, b)
    /\ Cardinality(QualifyingPairs) <= EDGE_LIMIT
         => \A e \in QualifyingPairs : ReturnedEdge(e[1], e[2])

\* A->B and B->A are returned as two edges, while a pair of the table that does not
\* qualify has no edge
C11_Witness ==
  /\ GraphDone
  /\ \E j, k \in DOMAIN result.edges :
       /\ result.edges[j].source = result.edges[k].target
       /\ result.edges[j].target = result.edges[k].source
       /\ result.edges[j].source # result.edges[j].target
  /\ \E i \in DOMAIN df : ~ReturnedEdge(df[i].sender_account, df[i].receiver_account)

SuspiciousSentBy(a) ==
  SelectSeq(df, LAMBDA x : x.sender_account = a /\ x.fraud_probability >= min_fraud_prob)

SuspiciousReceivedBy(a) ==
  SelectSeq(df, LAMBDA x : x.receiver_account = a /\ x.fraud_probability >= min_fraud_prob)

RoleOf(a) ==
  IF Len(SuspiciousSentBy(a)) > 0 /\ Len(SuspiciousReceivedBy(a)) > 0 THEN "both"
  ELSE IF Len(SuspiciousSentBy(a)) > 0 THEN "sender"
  ELSE "receiver"

\* C12: the nodes are exactly the accounts that send or receive in a surviving pair,
\* one node each, and a node's transaction count, volume and role come from the
\* transactions at or above min_fraud_prob that the account sent or received.
C12_NodesFromSuspiciousOnly ==
  GraphDone =>
    /\ {n.account_id : n \in result.nodes}
         = {e[1] : e \in QualifyingPairs} \cup {e[2] : e \in QualifyingPairs}
    /\ \A m, n \in result.nodes : m.account_id = n.account_id => m = n
    /\ result.total_accounts = Cardinality(result.nodes)
    /\ \A n \in result.nodes :
         /\ n.id = n.account_id
         /\ n.transaction_count
              = Len(SuspiciousSentBy(n.account_id)) + Len(SuspiciousReceivedBy(n.account_id))
         /\ n.total_volume
              = SumAmount(SuspiciousSentBy(n.account_id))
                  + SumAmount(SuspiciousReceivedBy(n.account_id))
         /\ n.node_type = RoleOf(n.account_id)

\* a node of role "receiver" whose account sent a transaction below min_fraud_prob:
\* over the full table its count and its role would be different
C12_Witness ==
  /\ GraphDone
  /\ \E n \in result.nodes :
       /\ n.node_type = "receiver"
       /\ \E i \in DOMAIN df :
            /\ df[i].sender_account = n.account_id
            /\ df[i].fraud_probability < min_fraud_prob

\* the surviving edges are a mutual pair a->b, b->a and nothing else
MutualPair(a, b) == a # b /\ EdgeSet = {<<a, b>>, <<b, a>>}

\* C16: every returned ring has at least 3 member accounts: it is a component the
\* traversal returned with 3 accounts or more; a mutual pair A->B, B->A alone yields
\* no ring.
C16_RingsHaveThreeAccounts ==
  GraphDone =>
    /\ \A k \in DOMAIN result.fraud_rings :
         /\ result.fraud_rings[k].account_count >= 3
         /\ \E i \in DOMAIN components :
              /\ Cardinality(components[i]) >= 3
              /\ Cardinality(components[i]) = result.fraud_rings[k].account_count
              /\ result.fraud_rings[k].accounts \subseteq components[i]
    /\ \A a, b \in Accounts : MutualPair(a, b) => result.fraud_rings = << >>

\* a finished request whose surviving edges are a mutual pair: one component of two
\* accounts was found and passed over
C16_Witness ==
  /\ GraphDone
  /\ \E a, b \in Accounts : MutualPair(a, b) /\ \E i \in DOMAIN components : components[i] = {a, b}
  /\ result.fraud_rings = << >>

\* this request has the parameters of the request before it
SameParameters ==
  /\ requests >= 1
  /\ previous.min_transactions = min_transactions
  /\ previous.min_fraud_prob = min_fraud_prob

\* C17: a second graph build with the same min_fraud_prob and min_transactions over
\* the cached table (nothing reloads or rescores it between the requests) returns
\* the same nodes, the same edges and the same rings as the first.
C17_RepeatedBuildIsIdentical ==
  (GraphDone /\ SameParameters) =>
    /\ result.nodes = previous.result.nodes
    /\ result.edges = previous.result.edges
    /\ result.fraud_rings = previous.result.fraud_rings
    /\ result = previous.result

\* a second request with the same parameters has returned a graph with a ring
C17_Witness ==
  /\ GraphDone
  /\ SameParameters
  /\ Len(result.edges) >= 2
  /\ Len(result.fraud_rings) >= 1

\* the components the traversal returned that have 3 accounts or more and hold a
\* directed cycle, in the order they were found
ConfirmedComponents ==
  SelectSeq(components, LAMBDA c : Cardinality(c) >= 3 /\ HasBackEdge(c))

\* the transactions of the table at or above min_fraud_prob with both ends in c
SuspiciousInside(c) ==
  SelectSeq(df, LAMBDA x : /\ x.fraud_probability >= min_fraud_prob
                           /\ x.sender_account \in c
                           /\ x.receiver_account \in c)

\* the component a returned ring was made from
ComponentOf(ring) ==
  CHOOSE c \in Range(components) : ring.accounts \subseteq c

\* C13: a ring's transaction_count and total_volume are those of all transactions at
\* or above min_fraud_prob whose sender and receiver both belong to the ring's
\* component: transactions of pairs dropped for their count are included, and the
\* component is taken whole, not as the 10 accounts displayed.
C13_RingStatisticsOverComponent ==
  GraphDone =>
    \A k \in DOMAIN result.fraud_rings :
      LET ring == result.fraud_rings[k] IN
      /\ \E c \in Range(components) : ring.accounts \subseteq c
      /\ ring.transaction_count = Len(SuspiciousInside(ComponentOf(ring)))
      /\ ring.total_volume = SumAmount(SuspiciousInside(ComponentOf(ring)))

\* a ring of more accounts than it displays, with a transaction inside it whose pair
\* was dropped, and a transaction into it from another component
C13_Witness ==
  /\ GraphDone
  /\ \E k \in DOMAIN result.fraud_rings :
       LET ring == result.fraud_rings[k] IN
       /\ ring.account_count > Cardinality(ring.accounts)
       /\ \E i \in DOMAIN df :
            /\ df[i].fraud_probability >= min_fraud_prob
            /\ df[i].sender_account \in ComponentOf(ring)
            /\ df[i].receiver_account \in ComponentOf(ring)
            /\ ~ReturnedEdge(df[i].sender_account, df[i].receiver_account)
       /\ \E i \in DOMAIN df :
            /\ df[i].fraud_probability >= min_fraud_prob
            /\ df[i].sender_account \notin ComponentOf(ring)
            /\ df[i].receiver_account \in ComponentOf(ring)

\* C14: at most 10 rings are returned, the first 10 confirmed in the order of
\* discovery; a ring lists at most 10 accounts, all of its component, and its
\* account_count is the size of the whole component.
C14_RingAndMemberLimits ==
  GraphDone =>
    /\ Len(result.fraud_rings) <= 10
    /\ Len(result.fraud_rings) = Min2(10, Len(ConfirmedComponents))
    /\ result.rings_detected = Len(result.fraud_rings)
    /\ \A k \in DOMAIN result.fraud_rings :
         LET ring == result.fraud_rings[k]
             c == ConfirmedComponents[k]
         IN  /\ Cardinality(ring.accounts) <= 10
             /\ Cardinality(ring.accounts) = Min2(10, Cardinality(c))
             /\ ring.accounts \subseteq c
             /\ ring.account_count = Cardinality(c)

\* more than 10 rings were confirmed, 10 are returned, and one of them has more
\* accounts than it lists
C14_Witness ==
  /\ GraphDone
  /\ Len(ConfirmedComponents) > 10
  /\ Len(result.fraud_rings) = 10
  /\ \E k \in DOMAIN result.fraud_rings :
       /\ Cardinality(result.fraud_rings[k].accounts) = 10
       /\ result.fraud_rings[k].account_count > 10

ExpectedRingIds ==
  <<"RING_001", "RING_002", "RING_003", "RING_004", "RING_005",
    "RING_006", "RING_007", "RING_008", "RING_009", "RING_010">>

\* C15: in every call the k-th returned ring is RING_00k (three digits): components
\* passed over take no number, and the numbering starts again at RING_001 with
\* every call.
C15_RingIdsSequentialPerCall ==
  GraphDone =>
    \A k \in DOMAIN result.fraud_rings :
      /\ k \in DOMAIN ExpectedRingIds
      /\ result.fraud_rings[k].ring_id = ExpectedRingIds[k]

\* a second call has returned 10 rings, with components of two accounts found and
\* passed over between them
C15_Witness ==
  /\ GraphDone
  /\ requests >= 1
  /\ Len(previous.result.fraud_rings) >= 1
  /\ Len(result.fraud_rings) = 10
  /\ \E i, j \in DOMAIN components :
       /\ i < j
       /\ Cardinality(components[i]) = 2
       /\ Cardinality(components[j]) >= 3

-----------------------------------------------------------------------------
(* Claims about mule detection *)

MuleDone == mpc = "done"

\* C6: an account whose total amount received is 0 has redistribution ratio exactly
\* 0, whatever it sent, and so is never flagged (the thresholds are positive).
C6_ZeroReceivedRatioIsZero ==
  MuleDone =>
    \A k \in DOMAIN mule_candidates :
      mule_candidates[k].amount_received = 0
        => /\ mule_candidates[k].redistribution_ratio.kind = "num"
           /\ mule_candidates[k].redistribution_ratio.num = 0
           /\ \A j \in DOMAIN mules : mules[j].account # mule_candidates[k].account

\* per-account figures read directly off the full table
RowsReceivedBy(a) == SelectSeq(df, LAMBDA x : x.receiver_account = a)

RowsSentBy(a) == SelectSeq(df, LAMBDA x : x.sender_account = a)

DistinctSendersOf(a) ==
  Cardinality({RowsReceivedBy(a)[i].sender_account : i \in DOMAIN RowsReceivedBy(a)})

\* the redistribution ratio is at least the threshold (in hundredths); the ratio of
\* an account that received a total of 0 is 0, and every threshold is positive
StatedRatioAtLeast(sent, received, thr) ==
  IF received > 0 THEN sent * 100 >= thr * received ELSE 0 >= thr

Qualifies(a) ==
  /\ DistinctSendersOf(a) >= min_senders
  /\ StatedRatioAtLeast(SumAmount(RowsSentBy(a)), SumAmount(RowsReceivedBy(a)),
                        redistribution_threshold)

FlaggedAccounts == {mules[k].account : k \in DOMAIN mules}

\* C7: over the full unfiltered table, an account is flagged exactly when it has at
\* least min_senders distinct senders and its ratio of amount sent to amount
\* received is at least redistribution_threshold (up to the cap of 20 records); an
\* account with fewer distinct senders is never flagged; fraud probabilities play
\* no part.
C7_MuleFlaggedExactlyWhen ==
  MuleDone =>
    LET qualifying == {a \in Accounts : Qualifies(a)} IN
    /\ FlaggedAccounts \subseteq qualifying
    /\ Cardinality(qualifying) <= MULE_LIMIT => FlaggedAccounts = qualifying
    /\ \A a \in Accounts : DistinctSendersOf(a) < min_senders => a \notin FlaggedAccounts

\* the same rule restricted to the accounts that received a positive total: this
\* part holds, the rule fails only where the amount received is 0 (C6)
MuleRuleOverPositiveReceipts ==
  MuleDone =>
    \A a \in Accounts :
      SumAmount(RowsReceivedBy(a)) > 0 => (a \in FlaggedAccounts <=> Qualifies(a))

-----------------------------------------------------------------------------
(* Claims about the dataset provider *)

\* thread t has returned from a get_data() call
ReturnedFromGet(t) == last[t].op = "get"

\* C4: a reader whose get() returns while a forced reload runs in another thread
\* receives a complete snapshot, old or new, with every derived field attached; never
\* a partially built frame.
C4_ReadersSeeCompleteSnapshot ==
  \A t \in Threads :
    (ReturnedFromGet(t) /\ last[t].during_reload) => last[t].observed = DerivedColumns

\* C5: callers of get() that found no dataset cached all receive the same snapshot;
\* while get() is all that is called, a single caller builds the dataset, and the
\* snapshot a caller received stays the cached one (no later load overwrites it).
C5_ConcurrentFirstGetSameSnapshot ==
  /\ \A t, u \in Threads :
       (ReturnedFromGet(t) /\ last[t].found_empty /\ ReturnedFromGet(u) /\ last[u].found_empty)
         => last[t].ret = last[u].ret
  /\ called \subseteq {"get"} => Cardinality({heap[i].built_by : i \in DOMAIN heap}) <= 1
  /\ called \subseteq {"get"} => \A t \in Threads : ReturnedFromGet(t) => _data = last[t].ret

\* thread t takes a step
Steps(t) == tpc'[t] # tpc[t]

\* the frame in the cache is one the running call of t put there itself and has not
\* finished building
BuildingOwn(t) ==
  /\ heap[_data].built_by = t
  /\ ~IsComplete(heap[_data])

\* the cached snapshot is replaced by a call that is not a forced reload
ReplacedWithoutReload ==
  \E t \in Threads :
    /\ Steps(t)
    /\ _data # 0
    /\ _data' # _data
    /\ call[t].op # "reload"
    /\ ~BuildingOwn(t)

\* C18: once a snapshot is cached, get() and load(force_reload=False) keep
\* returning it and build nothing: only a forced reload puts another frame in the
\* cache (a load that falls back replaces the unfinished frame it cached itself).
C18_CachedSnapshotKept == [][~ReplacedWithoutReload]_vars

\* the same, for calls that never overlap: this holds
CachedSnapshotKeptWithoutOverlap == [][overlapped' \/ ~ReplacedWithoutReload]_vars

\* the last call of t went through load_data
ReturnedFromLoad(t) ==
  \/ last[t].op \in {"load", "reload"}
  \/ last[t].op = "get" /\ last[t].found_empty

\* C19: whatever the source file is like, every call of load returns, and the frame
\* in the cache when it returns carries the derived fields (timestamps, time flags,
\* fraud probability, risk category), never a raw or half-processed table.
C19_LoadLeavesCompleteDataset ==
  \A t \in Threads : ReturnedFromLoad(t) => last[t].observed = DerivedColumns

\* the same, for calls that never overlap: this holds, and with a missing or
\* unusable file the frame is the synthetic one
LoadLeavesCompleteDatasetWithoutOverlap ==
  ~overlapped =>
    \A t \in Threads :
      ReturnedFromLoad(t) =>
        /\ last[t].observed = DerivedColumns
        /\ (csv \notin LoadableKinds /\ heap[last[t].ret].built_by = t)
             => heap[last[t].ret].source = "synthetic"

\* what /health answers after the source file was loaded
ReportAfterSourceLoad ==
  [status |-> "healthy", data_loaded |-> TRUE,
   data_info |-> {"loaded", "rows", "loaded_at", "fraud_count", "fraud_rate",
                  "date_range"}]

\* the response of /health, without the record of what the frame was
Response(h) ==
  [status |-> h.status, data_loaded |-> h.data_loaded, data_info |-> h.data_info]

\* C20: after a load that fell back to synthetic data, /health answers, but not as
\* plainly healthy: its response differs from the one after a load of the source.
C20_FallbackReportedAsDegraded ==
  (health.status # "none" /\ health.synthetic) =>
    /\ health.status # "healthy"
    /\ Response(health) # ReportAfterSourceLoad

\* a request for /health is answered
HealthAnswered == health' # health

\* /health leaves the cache, the frames and the calls in progress as they are
HealthLeavesCacheAlone ==
  UNCHANGED <<_data, _loaded_at, heap, csv, tpc, call, local_df, last, calls, called, overlapped>>

\* C30: /health never triggers a load and never changes the cache; while no data
\* request has been served it reports data_loaded = false with status 'degraded'
\* and the cache stays empty; in every state the status it reports is 'healthy'
\* exactly when a snapshot is cached.
C30_HealthReportsCacheOnly ==
  [][HealthAnswered =>
       /\ HealthLeavesCacheAlone
       /\ calls = 0 => (health'.status = "degraded" /\ ~health'.data_loaded /\ _data' = 0)
       /\ (health'.status = "healthy") <=> (_data # 0)
       /\ health'.data_loaded <=> (_data # 0)]_vars

\* the same where the cached frame has the column is_fraud: this holds
HealthReportsCacheOnlyWithLabels ==
  [][HealthAnswered =>
       /\ HealthLeavesCacheAlone
       /\ calls = 0 => (health'.status = "degraded" /\ ~health'.data_loaded /\ _data' = 0)
       /\ (_data # 0 /\ HasIsFraud(heap[_data])) => (health'.status = "healthy" /\ health'.data_loaded)
       /\ _data = 0 => (health'.status = "degraded" /\ ~health'.data_loaded)]_vars

\* /health has answered with an error while the cache holds a processed frame of
\* the source file
HealthErrorOverCachedFrame ==
  /\ health = HealthError
  /\ _data # 0
  /\ IsComplete(heap[_data])
  /\ heap[_data].source = "csv"
  /\ \A t \in Threads : tpc[t] = "idle"

\* /health has answered 'degraded' before any data request
DegradedBeforeAnyRequest == health.status = "degraded" /\ calls = 0 /\ _data = 0

-----------------------------------------------------------------------------
(* Claims about the relationship services over tables of many accounts *)

\* the accounts of the table
TableAccounts ==
  {df[i].sender_account : i \in DOMAIN df} \cup {df[i].receiver_account : i \in DOMAIN df}

\* no ordered pair has min_transactions transactions at or above min_fraud_prob
NoPairSurvives ==
  \A a, b \in TableAccounts : Len(QualifyingRows(a, b)) < min_transactions

\* no account meets the rule of mule detection
NoAccountQualifies == \A a \in TableAccounts : ~Qualifies(a)

EmptyGraphReturned ==
  /\ result.nodes = {}
  /\ result.edges = << >>
  /\ result.fraud_rings = << >>

\* C21: when no transaction pair survives the filters (empty table, no transaction
\* at or above min_fraud_prob, every pair below min_transactions) the graph request
\* ends with empty nodes, edges and rings, and a mule detection request over a
\* table in which no account qualifies ends with an empty list; both requests end
\* with an answer.
C21_EmptyResultsNoError ==
  /\ (GraphDone /\ NoPairSurvives) => EmptyGraphReturned
  /\ (MuleDone /\ NoAccountQualifies) => mules = << >>

\* no account qualifies: the only account with three distinct senders received a
\* total of 0; yet the answer is not empty
C21_NonEmptyWithoutQualifying ==
  /\ MuleDone
  /\ NoAccountQualifies
  /\ mules # << >>
  /\ \A k \in DOMAIN mules : SumAmount(RowsReceivedBy(mules[k].account)) = 0

\* some account received a total of 0 and sent a positive total
SomeZeroReceiptSender ==
  \E a \in TableAccounts :
    SumAmount(RowsReceivedBy(a)) = 0 /\ SumAmount(RowsSentBy(a)) > 0

\* the same, mule detection being looked at only over tables where every account
\* that sent received a positive total: this part holds (the rest fails by C6)
EmptyResultsOverPositiveReceipts ==
  /\ (GraphDone /\ NoPairSurvives) => EmptyGraphReturned
  /\ (MuleDone /\ NoAccountQualifies /\ ~SomeZeroReceiptSender) => mules = << >>

\* the three ways of an empty graph, and an empty list of mules over a table with rows
EmptyGraphOfEmptyTable == GraphDone /\ df = << >> /\ EmptyGraphReturned

EmptyGraphBelowProbability ==
  GraphDone /\ df # << >> /\ suspicious = << >> /\ EmptyGraphReturned

EmptyGraphBelowCount ==
  GraphDone /\ suspicious # << >> /\ pairs = << >> /\ EmptyGraphReturned

EmptyMuleList ==
  MuleDone /\ df # << >> /\ NoAccountQualifies /\ ~SomeZeroReceiptSender /\ mules = << >>

\* a graph request begins
GraphRequestBegins == gpc = "idle" /\ gpc' = "loop"

\* a graph request ends
GraphRequestEnds == gpc # "done" /\ gpc' = "done"

\* the request that ends has the parameters of the one before it
RepeatsPrevious ==
  /\ previous # << >>
  /\ min_transactions = previous.min_transactions
  /\ min_fraud_prob = previous.min_fraud_prob

\* C23: no step of a graph, ring detection, mule detection or filtered view request,
\* a failing one included, changes the cached table (the same records with the same
\* fraud probabilities) or the cache reference; a graph request begins with empty
\* ring state, and a graph request with the parameters of the one before it returns
\* the same result whatever was asked in between.
C23_SnapshotUnchangedByRequests ==
  [][/\ df' = df
     /\ UNCHANGED <<_data, heap>>
     /\ GraphRequestBegins => (rings' = << >> /\ visited' = {} /\ ring_id' = 1
                               /\ components' = << >>)
     /\ (GraphRequestEnds /\ RepeatsPrevious) => result' = previous.result]_vars

\* a second graph request has ended, after mule detection has flagged accounts, a
\* view has failed, and the first request had found a ring
C23_Witness ==
  /\ gpc = "done"
  /\ requests = 1
  /\ RepeatsPrevious
  /\ previous.result.fraud_rings # << >>
  /\ mpc = "done"
  /\ mules # << >>
  /\ view.op = "fraud"
  /\ view.status = "error"

\* the records of the joined per-account table whose account qualifies, in the
\* order of that table
QualifyingRecords == SelectSeq(mule_candidates, LAMBDA c : Qualifies(c.account))

CappedInTableOrder ==
  /\ Len(mules) <= MULE_LIMIT
  /\ mules = Prefix(QualifyingRecords, MULE_LIMIT)
  /\ \A k \in DOMAIN mules : Qualifies(mules[k].account)

\* C24: mule detection returns at most 20 records; they are the first 20 qualifying
\* accounts in the order of the joined per-account table, not re-sorted by ratio or
\* by number of senders, so every returned account meets both thresholds.
C24_AtMostTwentyInTableOrder == MuleDone => CappedInTableOrder

\* the same over tables where every account that sent received a positive total:
\* this part holds (the rest fails by C6)
CappedInTableOrderOverPositiveReceipts ==
  (MuleDone /\ ~SomeZeroReceiptSender) => CappedInTableOrder

\* 21 accounts qualify (account 1 of 22 does not) and the 20 returned are accounts
\* 2 to 21, though accounts 2, 3 and 4 have the highest ratio
MoreThanTwentyQualify ==
  /\ MuleDone
  /\ ~SomeZeroReceiptSender
  /\ Len(QualifyingRecords) > MULE_LIMIT
  /\ Len(mules) = MULE_LIMIT
  /\ mules[1].account = 2
  /\ mules[MULE_LIMIT].account = MULE_LIMIT + 1
  /\ \E k \in DOMAIN QualifyingRecords :
       /\ k > MULE_LIMIT
       /\ QualifyingRecords[k].amount_sent * mules[1].amount_received
            < mules[1].amount_sent * QualifyingRecords[k].amount_received

-----------------------------------------------------------------------------
(* Claims about the traversal of ring detection *)

\* an edge of the surviving pairs from a member of c to another member of c
EdgeInside(c) ==
  \E e \in EdgeSet : e[1] \in c /\ e[2] \in c /\ e[1] # e[2]

\* the components of three accounts or more, in the order they were found
LargeComponents ==
  SelectSeq(components, LAMBDA c : Cardinality(c) >= RING_MIN_ACCOUNTS)

PairAccounts == {e[1] : e \in EdgeSet} \cup {e[2] : e \in EdgeSet}

\* the components found so far are non-empty and share no account, neither with
\* one another nor with the component being built; at the end of the call every
\* account of a surviving pair is in one of them, and no account is in two rings
ComponentsArePartition ==
  /\ \A i \in DOMAIN components : components[i] # {}
  /\ \A i, j \in DOMAIN components : i # j => components[i] \cap components[j] = {}
  /\ gpc = "bfs" => \A i \in DOMAIN components : components[i] \cap component = {}
  /\ GraphDone =>
       /\ UNION Range(components) = PairAccounts
       /\ \A j, k \in DOMAIN result.fraud_rings :
            j # k => result.fraud_rings[j].accounts \cap result.fraud_rings[k].accounts = {}

\* within a call a visited account stays visited, an account of the component
\* being built stays in it until the component is returned, and a component that
\* was returned stays as it is
TraversalMovesForward ==
  GraphRequestBegins
    \/ /\ visited \subseteq visited'
       /\ Len(components) <= Len(components')
       /\ \A i \in DOMAIN components : components'[i] = components[i]
       /\ (gpc = "bfs" /\ gpc' = "bfs") => component \subseteq component'
       /\ (gpc = "bfs" /\ gpc' = "loop") => components'[Len(components')] = component

\* C28: during a call the traversal state of an account only moves forward
\* (unvisited, then visited and assigned), and the components of a call partition
\* the accounts of the surviving pairs: every sender or receiver of a surviving pair
\* is in exactly one component, so no account is in two returned rings.
C28_ComponentsPartitionAccounts ==
  []ComponentsArePartition /\ [][TraversalMovesForward]_vars

\* a second call over the same table has ended with two components, an edge of the
\* surviving pairs running from one into the other
C28_Witness ==
  /\ GraphDone
  /\ requests = 1
  /\ Len(components) = 2
  /\ \E e \in EdgeSet : e[1] \in components[2] /\ e[2] \in components[1]

\* each account has been expanded once at most in this call
ExpandedOnceAtMost == \A a \in DOMAIN expansions : expansions[a] <= 1

\* ring detection has been entered and has not returned
RingDetectionRunning == gpc \in {"loop", "bfs"}

\* C29: ring detection terminates on every finite edge set, directed cycles, mutual
\* edges and self-loops included: every traversal empties its queue, ring detection
\* once entered returns, and no account is expanded twice in a call, though an
\* account may sit in the queue more than once.
C29_RingDetectionTerminates ==
  /\ RingDetectionRunning ~> GraphDone
  /\ (gpc = "bfs") ~> ComponentComplete
  /\ []ExpandedOnceAtMost

\* an account not yet visited is in the queue twice
C29_Witness ==
  /\ gpc = "bfs"
  /\ \E i, j \in DOMAIN queue : i < j /\ queue[i] = queue[j] /\ queue[i] \notin visited

\* a call over a table whose one edge is a self-loop has returned
SelfLoopCallReturned ==
  GraphDone /\ \E a \in Accounts : EdgeSet = {<<a, a>>} /\ components = <<{a}>>

-----------------------------------------------------------------------------
(* Claims about the explanation of a transaction *)

Answered == response # NoResponse

\* the dataset has a transaction with the id asked about
IdPresent == \E i \in DOMAIN df : df[i].transaction_id = transaction_id

\* the answer is an explanation of the transaction asked about
ExplainsRequested ==
  /\ response.status = HTTP_OK
  /\ response.body.transaction_id = transaction_id
  /\ response.body.row_id = transaction_id

\* C22: an id that is not in the dataset is answered with 404 (not found), never
\* with 500 and never with the explanation of another transaction; an id that is in
\* the dataset is always answered with an explanation of exactly that transaction.
C22_NotFoundIsLookupFailure ==
  Answered =>
    /\ ~IdPresent => response.status = HTTP_NOT_FOUND
    /\ IdPresent => ExplainsRequested

\* the id is in the dataset, a timestamp of the dataset is NaT, and the answer is 500
PresentIdAnsweredWithInternalError ==
  /\ Answered
  /\ IdPresent
  /\ HourIsFloat(df)
  /\ response.status = HTTP_INTERNAL_ERROR

\* what holds of the lookup: an absent id is answered with 404 and nothing else is,
\* an explanation is always of the id asked about, and over a dataset whose
\* timestamps all parsed a present id is explained
LookupFailureIsNotFound ==
  Answered =>
    /\ response.status = HTTP_NOT_FOUND <=> ~IdPresent
    /\ response.status = HTTP_OK => ExplainsRequested
    /\ (IdPresent /\ ~HourIsFloat(df)) => ExplainsRequested

\* an absent id answered with 404 over a dataset with rows, and a present id
\* explained from the first of two rows that carry it
AbsentIdNotFound ==
  Answered /\ df # << >> /\ ~IdPresent /\ response.status = HTTP_NOT_FOUND

DuplicateIdExplainedFromFirstRow ==
  /\ Answered
  /\ Len(df) = 2
  /\ df[1].transaction_id = transaction_id
  /\ df[2].transaction_id = transaction_id
  /\ df[1].fraud_probability # df[2].fraud_probability
  /\ response.status = HTTP_OK
  /\ response.body.fraud_probability = df[1].fraud_probability

-----------------------------------------------------------------------------
(* Claims about the alert feed *)

AlertsDone == apc = "done"

\* the rows of the window: those at most 24 hours older than the newest row
InWindow(i) == \E hours \in HoursValues : \A k \in DOMAIN df :
                 df[i].timestamp >= df[k].timestamp - hours

\* the (sender, receiver) pairs of the window's transactions with fraud
\* probability above 0.7
WindowHighRiskEdges ==
  {<<df[i].sender_account, df[i].receiver_account>> :
     i \in {j \in DOMAIN df : InWindow(j) /\ df[j].fraud_probability > SIMPLE_RING_THRESHOLD}}

\* a circular pattern a->b, b->c, c->a over three accounts
WindowHasThreeCycle ==
  \E a, b, c \in Accounts :
    /\ a # b /\ b # c /\ a # c
    /\ {<<a, b>>, <<b, c>>, <<c, a>>} \subseteq WindowHighRiskEdges

RingAlertRaised ==
  \E k \in DOMAIN critical_alerts : critical_alerts[k].title = "Fraud Ring(s) Detected"

\* C25: whenever the window's transactions with fraud probability above 0.7 hold a
\* 3-account cycle A->B, B->C, C->A, _detect_simple_rings returns a count above 0 and
\* the critical alert 'Fraud Ring(s) Detected' is raised.
C25_ThreeCycleRaisesRingAlert ==
  (AlertsDone /\ WindowHasThreeCycle) => (alert_rings > 0 /\ RingAlertRaised)

\* a 3-account cycle in the window, no ring counted and no alert
ThreeCycleWithoutAlert ==
  /\ AlertsDone
  /\ WindowHasThreeCycle
  /\ alert_rings = 0
  /\ critical_alerts = << >>

\* what the counter does detect: the alert is raised exactly when some account's
\* high-risk receiver sends back to it at high risk (a mutual pair, or an account
\* sending to itself)
RingAlertIffPairPointsBack ==
  AlertsDone =>
    /\ RingAlertRaised <=> alert_rings > 0
    /\ alert_rings > 0 <=>
         \E a, b \in Accounts : {<<a, b>>, <<b, a>>} \subseteq WindowHighRiskEdges

-----------------------------------------------------------------------------
(* Specifications *)

\* no view, explanation or alert feed has been asked for
ServiceIdle == ViewIdle /\ ExplainIdle /\ AlertIdle

ScoreNext == PreprocessData

\* the scoring pipeline on every raw record
InitScore == ScoreInit /\ NoTable /\ GraphIdle /\ MuleIdle /\ LoaderIdle /\ ServiceIdle

SpecScore == InitScore /\ [][ScoreNext]_vars

ScoreIdle ==
  /\ scoreDf = [velocity_score |-> NaN, geo_anomaly_score |-> NaN,
                spending_deviation_score |-> NaN, time_since_last_transaction |-> NaN,
                timestamp |-> NaT]
  /\ scorePhase = "idle"

GraphNext ==
  \/ GetFraudNetworkGraph
  \/ NextStartNode
  \/ BfsStep
  \/ ComponentFound
  \/ ReturnGraph

\* one graph request over every scored table within the bounds
InitGraph == ScoreIdle /\ GraphTableInit /\ GraphIdle /\ MuleIdle /\ LoaderIdle /\ ServiceIdle

SpecGraph == InitGraph /\ [][GraphNext]_vars

GraphRepeatNext ==
  \/ GraphNext
  \/ RepeatRequest

InitGraphRepeat == ScoreIdle /\ RepeatTableInit /\ GraphIdle /\ MuleIdle /\ LoaderIdle /\ ServiceIdle

\* graph requests one after the other over the same cached table
SpecGraphRepeat == InitGraphRepeat /\ [][GraphRepeatNext]_vars

InitRings == ScoreIdle /\ RingTableInit /\ GraphIdle /\ MuleIdle /\ LoaderIdle /\ ServiceIdle

\* graph requests over tables of many components
SpecRings == InitRings /\ [][GraphRepeatNext]_vars

MuleNext == DetectMuleAccounts

InitMule == ScoreIdle /\ MuleTableInit /\ GraphIdle /\ MuleIdle /\ LoaderIdle /\ ServiceIdle

\* one mule detection request over every table within the bounds
SpecMule == InitMule /\ [][MuleNext]_vars

LoaderNext ==
  \E t \in Threads :
    \/ Call(t)
    \/ GetCheck(t)
    \/ GetReturn(t)
    \/ LoadCheck(t)
    \/ LoadReturnCached(t)
    \/ LoadSynthetic(t)
    \/ LoadReadCsv(t)
    \/ LoadParseTimestamp(t)
    \/ PreprocessEnter(t)
    \/ PreprocessTimeFlags(t)
    \/ PreprocessScore(t)
    \/ PreprocessRiskCategory(t)
    \/ PreprocessReturn(t)
    \/ LoadStamp(t)
    \/ LoadReturn(t)

InitLoader == ScoreIdle /\ NoTable /\ GraphIdle /\ MuleIdle /\ LoaderInit /\ ServiceIdle

\* requests on several threads calling get_data and load_data
SpecLoader == InitLoader /\ [][LoaderNext]_vars

HealthNext ==
  \/ LoaderNext
  \/ HealthCheck

\* the same requests, with requests for /health between their steps
SpecHealth == InitLoader /\ [][HealthNext]_vars

\* the relationship services and the filtered views over tables of many accounts,
\* asked for in any order
\* the endpoints are coroutines that never await: the event loop runs a request
\* to its end before it starts the next
NoGraphRequestRunning == gpc \in {"idle", "done"}

ServeMuleAccounts == NoGraphRequestRunning /\ DetectMuleAccounts

ServeRecentTransactions == NoGraphRequestRunning /\ GetRecentTransactions

ServeHighRiskTransactions == NoGraphRequestRunning /\ GetHighRiskTransactions

ServeFraudTransactions == NoGraphRequestRunning /\ GetFraudTransactions

NetworkNext ==
  \/ GraphRepeatNext
  \/ ServeMuleAccounts
  \/ ServeRecentTransactions
  \/ ServeHighRiskTransactions
  \/ ServeFraudTransactions

InitNetwork == ScoreIdle /\ LatticeTableInit /\ GraphIdle /\ MuleIdle /\ LoaderIdle /\ ServiceIdle

SpecNetwork == InitNetwork /\ [][NetworkNext]_vars

ExplainNext == ExplainTransaction

InitExplain == ScoreIdle /\ ExplainTableInit /\ GraphIdle /\ MuleIdle /\ LoaderIdle /\ ServiceIdle

\* one request for an explanation over every frame within the bounds
SpecExplain == InitExplain /\ [][ExplainNext]_vars

AlertNext ==
  \/ GenerateSmartAlerts
  \/ SimpleRingsNode
  \/ RaiseRingAlert

InitAlert == ScoreIdle /\ AlertTableInit /\ GraphIdle /\ MuleIdle /\ LoaderIdle /\ ServiceIdle

\* one request for the alert feed over every frame within the bounds
SpecAlert == InitAlert /\ [][AlertNext]_vars

\* the edges the tables of the terminating runs are made of: a directed cycle
\* through all accounts, an edge of it doubled by the edge back, an account that
\* sends to itself, and a chord from account 1 to the account two steps ahead
LiveEdges ==
  {<<a, (a % NumAccounts) + 1>> : a \in Accounts} \cup {<<2, 1>>, <<1, 1>>, <<1, 3>>}

\* a table with one row for each edge of E, each row suspicious
RECURSIVE TableOfEdges(_)
TableOfEdges(E) ==
  IF E = {} THEN << >>
  ELSE LET e == CHOOSE x \in E : \A y \in E : x[1] < y[1] \/ (x[1] = y[1] /\ x[2] <= y[2])
       IN  <<[sender_account |-> e[1], receiver_account |-> e[2],
              amount |-> CHOOSE x \in TableAmounts : TRUE,
              fraud_probability |-> CHOOSE p \in TableProbs : \A q \in TableProbs : q <= p]>>
             \o TableOfEdges(E \ {e})

LiveTableInit == df \in {TableOfEdges(E) : E \in SUBSET LiveEdges} /\ hash_seed = 0

InitGraphLive == ScoreIdle /\ LiveTableInit /\ GraphIdle /\ MuleIdle /\ LoaderIdle /\ ServiceIdle

\* the statements of _detect_fraud_rings and _find_connected_component
RingDetectionStep ==
  \/ NextStartNode
  \/ BfsStep
  \/ ComponentFound
  \/ ReturnGraph

\* the graph request as the interpreter runs it: a request may come or not, and
\* once ring detection is entered a statement that can run, runs
SpecGraphLive == InitGraphLive /\ [][GraphNext]_vars /\ WF_vars(RingDetectionStep)

====
